---------------------------- MODULE Spec2Model ----------------------------
(***************************************************************************)
(* A model of the nltouml compiler core: the timer desugaring pass         *)
(* (transform.py), the patch engine (agent_edit.py), the shape and literal *)
(* normalizer (normalize.py), the PlantUML codec (plantuml.py,             *)
(* roundtrip.py), the semantic validator (validate.py) and the IR diff     *)
(* (roundtrip.py).                                                         *)
(*                                                                         *)
(* Python dicts are records whose DOMAIN is the set of keys present, lists *)
(* are sequences, strings are strings.  Every component has its own        *)
(* variables and its own specification; a component's specification        *)
(* leaves the other components' variables at their idle value.             *)
(***************************************************************************)
EXTENDS Integers, Sequences, FiniteSets, TLC

\* ------------------------------------------------------------------ bounds

\* Total number of actions over the transitions of a desugaring input.
MaxActions == 4
\* Number of desugaring passes run one after the other.
MaxPasses == 2
\* Number of entries of patch.edits one call of apply_ir_patch consumes.
MaxEdits == 2
\* Number of runs (run_pipeline, run_agent_edit) on one bundle.
MaxRuns == 3
\* Largest max_repairs a run is called with.
MaxRepairs == 2

\* ----------------------------------------------------------------- helpers

Has(d, k) == k \in DOMAIN d

\* dict.get(k, default)
Get(d, k, default) == IF k \in DOMAIN d THEN d[k] ELSE default

\* d with key k set to v (added when absent)
Put(d, k, v) == [x \in DOMAIN d \cup {k} |-> IF x = k THEN v ELSE d[x]]

\* d without key k
Drop(d, k) == [x \in DOMAIN d \ {k} |-> d[x]]

Range(s) == {s[i] : i \in DOMAIN s}

SetMin(S) == CHOOSE m \in S : \A x \in S : m <= x

\* the sequence s without its i-th element (list.pop(i))
RemoveAt(s, i) == SubSeq(s, 1, i - 1) \o SubSeq(s, i + 1, Len(s))

\* all sequences over S of length at most n
RECURSIVE SeqsUpTo(_, _)
SeqsUpTo(S, n) ==
    IF n = 0 THEN {<<>>}
    ELSE LET shorter == SeqsUpTo(S, n - 1)
         IN shorter \cup {Append(s, x) : s \in {t \in shorter : Len(t) = n - 1}, x \in S}

\* ------------------------------------------------------- variables

VARIABLES
    d_ir,       \* desugaring: the IR the pass works on (mutated in place)
    d_in,       \* desugaring: the IR as it was before the last pass
    d_synth,    \* desugaring: per split of the last pass, the id synthesized
                \*   and the number of states before and after _ensure_state
    d_pass,     \* desugaring: number of passes run
    p_parent,   \* patch: parent_ir, the caller's object, as it is now
    p_parent0,  \* patch: parent_ir as it was when apply_ir_patch was called
    p_ir,       \* patch: ir, the object the edits are applied to
    p_shared,   \* patch: whether ir and parent_ir are one object
    p_pc,       \* patch: "call", "loop", "returned" or "raised"
    p_n,        \* patch: number of entries of patch.edits consumed
    p_prev,     \* patch: ir as it was before the last entry was consumed
    p_last,     \* patch: the last entry consumed, whether it raised, and the
                \* text of the error where the model keeps it
    p_result,   \* patch: what the caller of apply_ir_patch receives
    n_cat,      \* normalization: the device catalog
    n_ir,       \* normalization: the document (mutated in place)
    n_prev,     \* normalization: the document as it was before the last pass
    n_pass,     \* normalization: number of passes run
    r_orig,     \* round trip: the IR that is encoded
    r_text,     \* round trip: the PlantUML text
    r_dec,      \* round trip: parse_plantuml's locals while it reads the text
    r_ir,       \* round trip: the IR decoded from the text, as it is now
    r_diags,    \* round trip: diagnostics of the decoder and the validator
    r_diff,     \* round trip: _simple_ir_diff(original, decoded)
    r_pc,       \* round trip: the stage run_roundtrip is at
    v_dir,      \* pipeline: the entry point that runs the stages
    v_ir,       \* pipeline: the document the stages work on
    v_devs,     \* pipeline: the device catalog
    v_caps,     \* pipeline: the capability catalog
    v_diags,    \* pipeline: the diagnostics validate_all returned
    v_stages,   \* pipeline: the stages run so far, in order
    v_pc,       \* pipeline: the stage that runs next
    e_bundle,   \* runs: the bundle directory: baseline/ and current/
                \*   final.ir.json, manifest.json and the number of edits/ folders
    e_before,   \* runs: the bundle as it was when the run was called
    e_args,     \* runs: the entry point called, use_mock and max_repairs
    e_parent,   \* runs: parent_ir of run_agent_edit
    e_patch,    \* runs: patch of run_agent_edit
    e_ir,       \* runs: the document: ir of run_pipeline, raw_ir and
                \*   final_ir of run_agent_edit
    e_report,   \* runs: the validation report of the document
    e_repairs,  \* runs: repairs, the counter of the repair loop
    e_log,      \* runs: the calls of this run that the claims speak of, in order
    e_runs,     \* runs: number of runs called so far
    e_pc        \* runs: where the run is

dvars == <<d_ir, d_in, d_synth, d_pass>>
pvars == <<p_parent, p_parent0, p_ir, p_shared, p_pc, p_n, p_prev, p_last, p_result>>
nvars == <<n_cat, n_ir, n_prev, n_pass>>
rvars == <<r_orig, r_text, r_dec, r_ir, r_diags, r_diff, r_pc>>
vvars == <<v_dir, v_ir, v_devs, v_caps, v_diags, v_stages, v_pc>>
evars == <<e_bundle, e_before, e_args, e_parent, e_patch, e_ir, e_report,
           e_repairs, e_log, e_runs, e_pc>>
vars == <<dvars, pvars, nvars, rvars, vvars, evars>>

\* A component that is not running holds this in each of its variables.
Idle == "idle"

\* The variables a component's actions leave alone.
desugarOthers == <<pvars, nvars, rvars, vvars, evars>>
patchOthers == <<dvars, nvars, rvars, vvars, evars>>
normalizeOthers == <<dvars, pvars, rvars, vvars, evars>>
roundtripOthers == <<dvars, pvars, nvars, vvars, evars>>
pipelineOthers == <<dvars, pvars, nvars, rvars, evars>>
runsOthers == <<dvars, pvars, nvars, rvars, vvars>>

\* ------------------------------------------- transform.py: timer desugaring

StateIdsOf(states) == {s.id : s \in Range(states)}

\* _ensure_state(states, state_id): append a bare {id} stub unless one exists
ensure_state_list(states, state_id) ==
    IF \E i \in DOMAIN states : states[i].id = state_id
    THEN states
    ELSE Append(states, [id |-> state_id])

_make_after_trigger(seconds) == [type |-> "after", seconds |-> seconds]

IsNumericDelay(a) == a.type = "delay" /\ Has(a, "seconds")

\* (mutant) the scan returns the last delay instead of the first
_first_delay_last(actions) ==
    LET hits == {i \in DOMAIN actions : IsNumericDelay(actions[i])}
    IN IF hits = {} THEN 0 ELSE CHOOSE m \in hits : \A x \in hits : x <= m

\* Index (1-based) of the first delay action carrying numeric seconds, 0 for None.
_first_delay(actions) ==
    LET hits == {i \in DOMAIN actions : IsNumericDelay(actions[i])}
    IN IF hits = {} THEN 0 ELSE SetMin(hits)

\* str.replace("-", "_") on the decimal rendering of an int
IntText(n) == IF n < 0 THEN "_" \o ToString(0 - n) ELSE ToString(n)

\* f"Wait_{secs}s_{counter}" with "-" and " " replaced by "_"
WaitStateName(secs, counter) ==
    "Wait_" \o IntText(secs) \o "s_" \o ToString(counter)

\* The id the pass settles on: one suffix is tried when the first name is taken.
WaitStateId(secs, counter, existing_ids) ==
    LET wait_state == WaitStateName(secs, counter)
    IN IF wait_state \in existing_ids
       THEN wait_state \o "_" \o ToString(counter)
       ELSE wait_state

\* tr_a: original triggers/guard, the actions before the delay
PartA(cur_tr, wait_state, before, counter) ==
    LET base == [from |-> cur_tr.from, to |-> wait_state,
                 triggers |-> Get(cur_tr, "triggers", <<>>), actions |-> before]
        g == IF Has(cur_tr, "guard") THEN Put(base, "guard", cur_tr.guard) ELSE base
    IN IF Has(cur_tr, "id")
       THEN Put(g, "id", cur_tr.id \o "_a" \o ToString(counter))
       ELSE g

\* (mutant) the second leg keeps the triggers of the transition it continues
PartB_KeepTriggers(cur_tr, wait_state, secs, after, counter) ==
    LET base == [from |-> wait_state, to |-> cur_tr.to,
                 triggers |-> Get(cur_tr, "triggers", <<>>), actions |-> after]
    IN IF Has(cur_tr, "id")
       THEN Put(base, "id", cur_tr.id \o "_b" \o ToString(counter))
       ELSE base

\* tr_b: the after(secs) trigger, the actions after the delay
PartB(cur_tr, wait_state, secs, after, counter) ==
    LET base == [from |-> wait_state, to |-> cur_tr.to,
                 triggers |-> <<_make_after_trigger(secs)>>, actions |-> after]
    IN IF Has(cur_tr, "id")
       THEN Put(base, "id", cur_tr.id \o "_b" \o ToString(counter))
       ELSE base

\* The while loop over one transition.  st carries the pass's locals:
\*   states, existing_ids, counter, new_transitions, and the record of splits.
RECURSIVE SplitLoop(_, _, _)
SplitLoop(cur_tr, cur_actions, st) ==
    LET idx == _first_delay(cur_actions)
    IN IF idx = 0 \/ idx >= Len(cur_actions)
       THEN [st EXCEPT !.new_transitions = Append(@, cur_tr)]
       ELSE LET secs == cur_actions[idx].seconds
                before == SubSeq(cur_actions, 1, idx - 1)
                after == SubSeq(cur_actions, idx + 1, Len(cur_actions))
                counter == st.counter + 1
                wait_state == WaitStateId(secs, counter, st.existing_ids)
                states == ensure_state_list(st.states, wait_state)
                tr_a == PartA(cur_tr, wait_state, before, counter)
                tr_b == PartB(cur_tr, wait_state, secs, after, counter)
            IN SplitLoop(tr_b, after,
                 [states |-> states,
                  existing_ids |-> st.existing_ids \cup {wait_state},
                  counter |-> counter,
                  new_transitions |-> Append(st.new_transitions, tr_a),
                  synth |-> Append(st.synth,
                              [id |-> wait_state,
                               known |-> st.existing_ids,
                               before |-> Len(st.states),
                               after |-> Len(states)])])

\* The for loop over the transitions.
RECURSIVE DesugarLoop(_, _)
DesugarLoop(transitions, st) ==
    IF transitions = <<>> THEN st
    ELSE LET tr == Head(transitions)
         IN DesugarLoop(Tail(transitions),
              IF ~Has(tr, "actions")
              THEN [st EXCEPT !.new_transitions = Append(@, tr)]
              ELSE SplitLoop(tr, tr.actions, st))

DesugarRun(ir) ==
    DesugarLoop(ir.stateMachine.transitions,
        [states |-> ir.stateMachine.states,
         existing_ids |-> StateIdsOf(ir.stateMachine.states),
         counter |-> 0,
         new_transitions |-> <<>>,
         synth |-> <<>>])

desugar_delays_to_timer_states(ir) ==
    LET run == DesugarRun(ir)
    IN [ir EXCEPT !.stateMachine.states = run.states,
                  !.stateMachine.transitions = run.new_transitions]

\* ------------------------------------------------- sample IR building blocks

cmdOn == [type |-> "command", device |-> "light_hall", command |-> "on"]
cmdOff == [type |-> "command", device |-> "light_hall", command |-> "off"]
delay5 == [type |-> "delay", seconds |-> 5]
delay7 == [type |-> "delay", seconds |-> 7]

refMotion == [ref |-> [device |-> "motion_hall", path |-> "motion"]]
litActive == [lit |-> [string |-> "active"]]
guardMotion == [op |-> "eq", args |-> <<refMotion, litActive>>]

trigBecomes == [type |-> "becomes",
                ref |-> [device |-> "motion_hall", path |-> "motion"],
                value |-> [string |-> "active"]]
trigChanges == [type |-> "changes",
                ref |-> [device |-> "motion_hall", path |-> "motion"]]

MkIR(initial, states, transitions) ==
    [version |-> "0.1",
     devices |-> <<>>,
     stateMachine |-> [initial |-> initial, states |-> states,
                       transitions |-> transitions]]

\* ------------------------------------------------ desugaring: specification

DesugarActions == {cmdOn, cmdOff, delay5, delay7}

\* State ids an earlier pass over the same document may have left behind.
DesugarExtraStates ==
    {<<>>,
     <<[id |-> "Wait_5s_1"]>>,
     <<[id |-> "Wait_5s_1"], [id |-> "Wait_5s_1_1"]>>,
     <<[id |-> "Wait_5s_2"], [id |-> "Wait_7s_1"]>>}

\* The first transition has a guard and an id, the second has neither.
DesugarTransitions(n, acts1, acts2) ==
    LET t1 == [id |-> "t1", from |-> "A", to |-> "B",
               triggers |-> <<trigBecomes>>, guard |-> guardMotion,
               actions |-> acts1]
        t2 == [from |-> "B", to |-> "A",
               triggers |-> <<trigChanges>>, actions |-> acts2]
    IN IF n = 0 THEN <<>> ELSE IF n = 1 THEN <<t1>> ELSE <<t1, t2>>

\* Up to two transitions sharing a budget of MaxActions actions.
DesugarInit ==
    /\ \E n \in 0..2, extra \in DesugarExtraStates,
          acts1 \in SeqsUpTo(DesugarActions, MaxActions) :
          \E acts2 \in SeqsUpTo(DesugarActions, MaxActions - Len(acts1)) :
             /\ n = 0 => acts1 = <<>>
             /\ n < 2 => acts2 = <<>>
             /\ d_ir = MkIR("A", <<[id |-> "A"], [id |-> "B"]>> \o extra,
                            DesugarTransitions(n, acts1, acts2))
    /\ d_in = d_ir
    /\ d_synth = <<>>
    /\ d_pass = 0
    /\ e_bundle = Idle /\ e_before = Idle /\ e_args = Idle /\ e_parent = Idle
    /\ e_patch = Idle /\ e_ir = Idle /\ e_report = Idle /\ e_repairs = Idle
    /\ e_log = Idle /\ e_runs = Idle /\ e_pc = Idle
    /\ p_parent = Idle /\ p_parent0 = Idle /\ p_ir = Idle /\ p_shared = Idle
    /\ p_pc = Idle /\ p_n = Idle /\ p_prev = Idle /\ p_last = Idle
    /\ p_result = Idle
    /\ n_cat = Idle /\ n_ir = Idle /\ n_prev = Idle /\ n_pass = Idle
    /\ r_orig = Idle /\ r_text = Idle /\ r_ir = Idle /\ r_diags = Idle
    /\ r_diff = Idle /\ r_pc = Idle /\ r_dec = Idle
    /\ v_dir = Idle /\ v_ir = Idle /\ v_devs = Idle /\ v_caps = Idle
    /\ v_diags = Idle /\ v_stages = Idle /\ v_pc = Idle

\* One run of desugar_delays_to_timer_states on the current IR.
DesugarPass ==
    /\ d_pass < MaxPasses
    /\ d_in' = d_ir
    /\ d_ir' = desugar_delays_to_timer_states(d_ir)
    /\ d_synth' = DesugarRun(d_ir).synth
    /\ d_pass' = d_pass + 1
    /\ UNCHANGED desugarOthers

DesugarNext == DesugarPass

SpecDesugar == DesugarInit /\ [][DesugarNext]_vars

\* ----------------------------------------------------- desugaring: claims

IsDelay(a) == a.type = "delay"

\* Position of the delay a transition is split at: the first delay, when an
\* action follows it; 0 when the list has no such delay.
SplitPoint(acts) ==
    IF \E k \in 1..(Len(acts) - 1) :
          IsDelay(acts[k]) /\ \A j \in 1..(k - 1) : ~IsDelay(acts[j])
    THEN CHOOSE k \in 1..(Len(acts) - 1) :
          IsDelay(acts[k]) /\ \A j \in 1..(k - 1) : ~IsDelay(acts[j])
    ELSE 0

ActionsAfter(acts, k) == SubSeq(acts, k + 1, Len(acts))

\* Number of transitions one input transition becomes.
RECURSIVE Legs(_)
Legs(acts) ==
    IF SplitPoint(acts) = 0 THEN 1
    ELSE 1 + Legs(ActionsAfter(acts, SplitPoint(acts)))

\* Where the legs of input transition i start in the output list.
RECURSIVE LegOffset(_, _)
LegOffset(ts, i) ==
    IF i = 1 THEN 1 ELSE LegOffset(ts, i - 1) + Legs(ts[i - 1].actions)

\* The same, were every split transition replaced by exactly two.
RECURSIVE PairOffset(_, _)
PairOffset(ts, i) ==
    IF i = 1 THEN 1
    ELSE PairOffset(ts, i - 1) + (IF SplitPoint(ts[i - 1].actions) = 0 THEN 1 ELSE 2)

SameGuard(a, b) ==
    /\ Has(a, "guard") <=> Has(b, "guard")
    /\ Has(a, "guard") => a.guard = b.guard

NoDelayMidList(ir) ==
    \A t \in Range(ir.stateMachine.transitions) :
        Has(t, "actions") =>
            \A k \in 1..(Len(t.actions) - 1) : ~IsDelay(t.actions[k])

\* C3: desugaring is idempotent: after one pass no transition has a delay
\* followed by another action, and a second pass returns the same states and
\* the same transitions as the first.
C3_DesugarIdempotent ==
    /\ d_pass >= 1 => NoDelayMidList(d_ir)
    /\ d_pass >= 2 =>
          /\ d_ir.stateMachine.states = d_in.stateMachine.states
          /\ d_ir.stateMachine.transitions = d_in.stateMachine.transitions
          /\ d_synth = <<>>

\* C3 witness: a second pass has run over the result of a first pass that
\* split a chain of two delays and kept a trailing one.
C3_Witness ==
    /\ d_pass = 2
    /\ Len(d_ir.stateMachine.transitions) = 3
    /\ d_ir.stateMachine.transitions[3].actions = <<cmdOff, delay7>>
    /\ d_ir.stateMachine.transitions[2].triggers = <<[type |-> "after", seconds |-> 5]>>

\* The first leg of a split: F -> W with the original triggers and guard and
\* the actions before the delay.
FirstLeg(leg, tr, k) ==
    /\ leg.from = tr.from
    /\ leg.triggers = tr.triggers
    /\ SameGuard(leg, tr)
    /\ leg.actions = SubSeq(tr.actions, 1, k - 1)

C5_FreshWaitIds ==
    \A k \in DOMAIN d_synth :
        /\ d_synth[k].id \notin d_synth[k].known
        /\ d_synth[k].after = d_synth[k].before + 1

\* ------------------------------------------------ agent_edit.py: patch engine

\* (mutant) no copy: the edits are applied to the caller's object
no_copy(obj) == [value |-> obj, shared |-> TRUE]

\* copy.deepcopy(obj): a new object with the same value
deepcopy(obj) == [value |-> obj, shared |-> FALSE]

\* Index (1-based) of the first state with that id, 0 for None.
_find_state(sm, state_id) ==
    LET hits == {i \in DOMAIN sm.states : sm.states[i].id = state_id}
    IN IF hits = {} THEN 0 ELSE SetMin(hits)

\* (mutant) a missing state is not created
_ensure_state_found_only(sm, state_id) == sm

\* _ensure_state(sm, state_id): sm after the call
_ensure_state(sm, state_id) ==
    IF _find_state(sm, state_id) # 0 THEN sm
    ELSE [sm EXCEPT !.states = Append(@, [id |-> state_id])]

\* An edit's outcome: the state machine after it, or a PipelineError.
Done(sm) == [raised |-> FALSE, sm |-> sm]
Raise(sm) == [raised |-> TRUE, sm |-> sm]

\* Global positions of the transitions with that (from, to), in list order.
MatchIdxs(ts, from_id, to_id) ==
    SelectSeq([i \in 1..Len(ts) |-> i],
              LAMBDA i : ts[i].from = from_id /\ ts[i].to = to_id)

\* e.get("index") when it is an int, else None
HasIndex(e) == Has(e, "index")

\* (mutant) an index is taken as a position in transitions[]
_match_transition_global(sm, from_id, to_id, e) ==
    LET matches == MatchIdxs(sm.transitions, from_id, to_id)
    IN IF HasIndex(e)
       THEN (IF e.index < 0 \/ e.index >= Len(sm.transitions) THEN 0 ELSE e.index + 1)
       ELSE IF Len(matches) # 1 THEN 0 ELSE matches[1]

\* _match_transition: the global position of the matched transition, 0 on raise
_match_transition(sm, from_id, to_id, e) ==
    LET matches == MatchIdxs(sm.transitions, from_id, to_id)
    IN IF matches = <<>> THEN 0
       ELSE IF ~HasIndex(e)
            THEN (IF Len(matches) > 1 THEN 0 ELSE matches[1])
            ELSE IF e.index < 0 \/ e.index >= Len(matches) THEN 0
                 ELSE matches[e.index + 1]

\* (mutant) an index is taken as a position in transitions[]
_remove_transition_global(sm, from_id, to_id, e) ==
    LET ts == sm.transitions
        match_idxs == MatchIdxs(ts, from_id, to_id)
    IN IF match_idxs = <<>> THEN Done(sm)
       ELSE IF ~HasIndex(e)
            THEN Done([sm EXCEPT !.transitions = RemoveAt(ts, match_idxs[1])])
            ELSE IF e.index < 0 \/ e.index >= Len(ts) THEN Raise(sm)
                 ELSE Done([sm EXCEPT !.transitions = RemoveAt(ts, e.index + 1)])

\* (mutant) without an index the last match is removed
_remove_transition_last(sm, from_id, to_id, e) ==
    LET ts == sm.transitions
        match_idxs == MatchIdxs(ts, from_id, to_id)
    IN IF match_idxs = <<>> THEN Done(sm)
       ELSE IF ~HasIndex(e)
            THEN Done([sm EXCEPT !.transitions =
                           RemoveAt(ts, match_idxs[Len(match_idxs)])])
            ELSE IF e.index < 0 \/ e.index >= Len(match_idxs) THEN Raise(sm)
                 ELSE Done([sm EXCEPT !.transitions =
                                RemoveAt(ts, match_idxs[e.index + 1])])

\* _remove_transition
_remove_transition(sm, from_id, to_id, e) ==
    LET ts == sm.transitions
        match_idxs == MatchIdxs(ts, from_id, to_id)
    IN IF match_idxs = <<>> THEN Done(sm)
       ELSE IF ~HasIndex(e)
            THEN Done([sm EXCEPT !.transitions = RemoveAt(ts, match_idxs[1])])
            ELSE IF e.index < 0 \/ e.index >= Len(match_idxs) THEN Raise(sm)
                 ELSE Done([sm EXCEPT !.transitions =
                                RemoveAt(ts, match_idxs[e.index + 1])])

apply_set_state_label(sm, e) ==
    LET sid == Get(e, "state_id", "")
    IN IF sid = "" \/ ~Has(e, "label") THEN Raise(sm)
       ELSE LET sm1 == _ensure_state(sm, sid)
                i == _find_state(sm1, sid)
            IN Done([sm1 EXCEPT !.states[i] = Put(@, "label", e.label)])

apply_set_initial(sm, e) ==
    LET sid == Get(e, "state_id", "")
    IN IF sid = "" THEN Raise(sm)
       ELSE Done([_ensure_state(sm, sid) EXCEPT !.initial = sid])

apply_add_state(sm, e) ==
    LET sid == Get(e, "state_id", "")
    IN IF sid = "" THEN Raise(sm)
       ELSE LET sm1 == _ensure_state(sm, sid)
                i == _find_state(sm1, sid)
            IN IF Has(e, "label") /\ e.label # ""
               THEN Done([sm1 EXCEPT !.states[i] = Put(@, "label", e.label)])
               ELSE Done(sm1)

\* (mutant) the cascade forgets the transitions that end in the state
apply_remove_state_from_only(sm, e) ==
    LET sid == Get(e, "state_id", "")
    IN IF sid = "" THEN Raise(sm)
       ELSE Done([sm EXCEPT
                !.states = SelectSeq(@, LAMBDA st : st.id # sid),
                !.transitions = SelectSeq(@, LAMBDA t : t.from # sid)])

apply_remove_state(sm, e) ==
    LET sid == Get(e, "state_id", "")
    IN IF sid = "" THEN Raise(sm)
       ELSE Done([sm EXCEPT
                !.states = SelectSeq(@, LAMBDA st : st.id # sid),
                !.transitions = SelectSeq(@, LAMBDA t : ~(t.from = sid \/ t.to = sid))])

apply_remove_transition(sm, e) ==
    LET from_id == Get(e, "from", "")
        to_id == Get(e, "to", "")
    IN IF from_id = "" \/ to_id = "" THEN Raise(sm)
       ELSE _remove_transition(sm, from_id, to_id, e)

\* the fields of the edit a transition takes over as they are
CopyFields(t, e) ==
    LET t1 == IF Has(e, "triggers") THEN Put(t, "triggers", e.triggers) ELSE t
        t2 == IF Has(e, "guard") THEN Put(t1, "guard", e.guard) ELSE t1
    IN IF Has(e, "actions") THEN Put(t2, "actions", e.actions) ELSE t2

\* (mutant) the new transition is put in front of the list
apply_add_transition_front(sm, e) ==
    LET from_id == Get(e, "from", "")
        to_id == Get(e, "to", "")
    IN IF from_id = "" \/ to_id = "" THEN Raise(sm)
       ELSE LET sm1 == _ensure_state(_ensure_state(sm, from_id), to_id)
                t == CopyFields([from |-> from_id, to |-> to_id], e)
            IN Done([sm1 EXCEPT !.transitions = <<t>> \o @])

apply_add_transition(sm, e) ==
    LET from_id == Get(e, "from", "")
        to_id == Get(e, "to", "")
    IN IF from_id = "" \/ to_id = "" THEN Raise(sm)
       ELSE LET sm1 == _ensure_state(_ensure_state(sm, from_id), to_id)
                t == CopyFields([from |-> from_id, to |-> to_id], e)
            IN Done([sm1 EXCEPT !.transitions = Append(@, t)])

\* (mutant) the matched transition is rebuilt from the edit alone
apply_update_transition_rebuild(sm, e) ==
    LET from_id == Get(e, "from", "")
        to_id == Get(e, "to", "")
    IN IF from_id = "" \/ to_id = "" THEN Raise(sm)
       ELSE LET g == _match_transition(sm, from_id, to_id, e)
            IN IF g = 0 THEN Raise(sm)
               ELSE LET nf == Get(e, "new_from", "")
                        nt == Get(e, "new_to", "")
                        sm1 == IF nf # "" THEN _ensure_state(sm, nf) ELSE sm
                        sm2 == IF nt # "" THEN _ensure_state(sm1, nt) ELSE sm1
                        t0 == sm.transitions[g]
                        t1 == [from |-> IF nf # "" THEN nf ELSE t0.from,
                               to |-> IF nt # "" THEN nt ELSE t0.to]
                    IN Done([sm2 EXCEPT !.transitions[g] = CopyFields(t1, e)])

apply_update_transition(sm, e) ==
    LET from_id == Get(e, "from", "")
        to_id == Get(e, "to", "")
    IN IF from_id = "" \/ to_id = "" THEN Raise(sm)
       ELSE LET g == _match_transition(sm, from_id, to_id, e)
            IN IF g = 0 THEN Raise(sm)
               ELSE LET nf == Get(e, "new_from", "")
                        nt == Get(e, "new_to", "")
                        sm1 == IF nf # "" THEN _ensure_state(sm, nf) ELSE sm
                        sm2 == IF nt # "" THEN _ensure_state(sm1, nt) ELSE sm1
                        t0 == sm.transitions[g]
                        t1 == IF nf # "" THEN [t0 EXCEPT !.from = nf] ELSE t0
                        t2 == IF nt # "" THEN [t1 EXCEPT !.to = nt] ELSE t1
                    IN Done([sm2 EXCEPT !.transitions[g] = CopyFields(t2, e)])

SupportedOps ==
    {"set_state_label", "set_initial", "add_state", "remove_state",
     "remove_transition", "add_transition", "update_transition"}

\* (mutant) an entry whose op is none of the seven is passed over
ApplyEdit_skip_unknown(sm, e) ==
    LET op == Get(e, "op", "None")
    IN CASE op = "set_state_label" -> apply_set_state_label(sm, e)
         [] op = "set_initial" -> apply_set_initial(sm, e)
         [] op = "add_state" -> apply_add_state(sm, e)
         [] op = "remove_state" -> apply_remove_state(sm, e)
         [] op = "remove_transition" -> apply_remove_transition(sm, e)
         [] op = "add_transition" -> apply_add_transition(sm, e)
         [] op = "update_transition" -> apply_update_transition(sm, e)
         [] OTHER -> Done(sm)

\* The body of `for e in edits` for one dict entry: dispatch on op.  The last
\* raise carries the text f"Unsupported patch op: {op}"; a missing op reads None.
ApplyEdit(sm, e) ==
    LET op == Get(e, "op", "None")
    IN CASE op = "set_state_label" -> apply_set_state_label(sm, e)
         [] op = "set_initial" -> apply_set_initial(sm, e)
         [] op = "add_state" -> apply_add_state(sm, e)
         [] op = "remove_state" -> apply_remove_state(sm, e)
         [] op = "remove_transition" -> apply_remove_transition(sm, e)
         [] op = "add_transition" -> apply_add_transition(sm, e)
         [] op = "update_transition" -> apply_update_transition(sm, e)
         [] OTHER -> Put(Raise(sm), "message", "Unsupported patch op: " \o op)

\* ------------------------------------------------ patch engine: specification

trigAfter9 == [type |-> "after", seconds |-> 9]

tIdleLit == [from |-> "Idle", to |-> "Lit",
             triggers |-> <<trigBecomes>>, actions |-> <<cmdOn>>]
tIdleLit2 == [from |-> "Idle", to |-> "Lit", triggers |-> <<trigChanges>>,
              guard |-> guardMotion, actions |-> <<cmdOn, delay5>>]
tLitIdle == [from |-> "Lit", to |-> "Idle",
             triggers |-> <<[type |-> "after", seconds |-> 5]>>,
             actions |-> <<cmdOff>>]
tLitOff == [from |-> "Lit", to |-> "Off", triggers |-> <<trigChanges>>,
            actions |-> <<>>]

\* The IRs apply_ir_patch is called on: Idle <-> Lit, two parallel Idle -> Lit
\* transitions (adjacent, and with another transition between them), a machine
\* without transitions, and a document without a stateMachine object.
PatchParents ==
    {MkIR("Idle", <<[id |-> "Idle"], [id |-> "Lit"]>>, <<tIdleLit, tLitIdle>>),
     MkIR("Idle", <<[id |-> "Idle"], [id |-> "Lit"]>>,
          <<tIdleLit, tIdleLit2, tLitIdle>>),
     MkIR("Idle", <<[id |-> "Idle", label |-> "Home"], [id |-> "Lit"], [id |-> "Off"]>>,
          <<tIdleLit, tLitIdle, tIdleLit2, tLitOff>>),
     MkIR("Lit", <<[id |-> "Lit"]>>, <<>>),
     [version |-> "0.1", devices |-> <<>>]}

PatchPairs == {<<"Idle", "Lit">>, <<"Lit", "Idle">>, <<"Idle", "Off">>}
PatchIndexes == {-1, 0, 1, 2}

\* What mock_generate_edit_patch reads in request_text.lower(): whether it
\* holds "lightoff" and "notify", and the numbers its two patterns find before
\* minute(s) and second(s) (-1: no match).
MockRequests ==
    [lightoff : BOOLEAN, minutes : {-1, 2}, seconds : {-1, 90}, notify : BOOLEAN]

\* mock_generate_edit_patch(request_text, current_ir)
mock_generate_edit_patch(t) ==
    LET timer(secs) == [op |-> "update_transition", from |-> "WaitOff", to |-> "Idle",
                        triggers |-> <<[type |-> "after", seconds |-> secs]>>]
        edits ==
            (IF t.lightoff
             THEN <<[op |-> "set_state_label", state_id |-> "Idle", label |-> "LightOff"]>>
             ELSE <<>>)
            \o (IF t.minutes >= 0 THEN <<timer(t.minutes * 60)>> ELSE <<>>)
            \o (IF t.seconds >= 0 THEN <<timer(t.seconds)>> ELSE <<>>)
            \o (IF t.notify
                THEN <<[op |-> "update_transition", from |-> "Idle", to |-> "LightOn",
                        actions |-> <<[type |-> "command", ref |-> [device |-> "light_hall"],
                                       command |-> "on", args |-> <<>>],
                                      [type |-> "notify", message |-> "Motion detected"]>>]>>
                ELSE <<>>)
    IN [summary |-> "Applied requested changes (mock).",
        edits |-> IF edits = <<>>
                  THEN <<[op |-> "set_state_label", state_id |-> "Idle", label |-> "Idle"]>>
                  ELSE edits]

\* Every edit the mock generator writes.
MockEdits == UNION {Range(mock_generate_edit_patch(t).edits) : t \in MockRequests}

SetStateLabelEdits ==
    {[op |-> "set_state_label", state_id |-> sid, label |-> lbl] :
        sid \in {"Idle", "Off"}, lbl \in {"Hall", ""}}
    \cup {[op |-> "set_state_label", state_id |-> "Idle"],
          [op |-> "set_state_label", label |-> "Hall"]}
    \cup {e \in MockEdits : e.op = "set_state_label"}

SetInitialEdits ==
    {[op |-> "set_initial", state_id |-> sid] : sid \in {"Idle", "Lit", "Off"}}
    \cup {[op |-> "set_initial"]}

AddStateEdits ==
    {[op |-> "add_state", state_id |-> sid] : sid \in {"Lit", "Off"}}
    \cup {[op |-> "add_state", state_id |-> sid, label |-> lbl] :
            sid \in {"Lit", "Off"}, lbl \in {"Hall", ""}}
    \cup {[op |-> "add_state", state_id |-> ""]}

RemoveStateEdits ==
    {[op |-> "remove_state", state_id |-> sid] : sid \in {"Idle", "Lit", "Off"}}
    \cup {[op |-> "remove_state"]}

RemoveTransitionEdits ==
    {[op |-> "remove_transition", from |-> pr[1], to |-> pr[2]] : pr \in PatchPairs}
    \cup {[op |-> "remove_transition", from |-> pr[1], to |-> pr[2], index |-> k] :
            pr \in PatchPairs, k \in PatchIndexes}
    \cup {[op |-> "remove_transition", from |-> "Idle"]}

AddTransitionEdits ==
    {[op |-> "add_transition", from |-> pr[1], to |-> pr[2]] :
        pr \in {<<"Idle", "Lit">>, <<"Off", "Lit">>, <<"Far", "Far">>}}
    \cup {[op |-> "add_transition", from |-> pr[1], to |-> pr[2],
           triggers |-> <<trigAfter9>>, actions |-> <<cmdOff>>] :
            pr \in {<<"Idle", "Lit">>, <<"Lit", "Far">>}}
    \cup {[op |-> "add_transition", to |-> "Lit"]}

\* What an update_transition edit carries besides op, from, to and index.
UpdatePayloads ==
    {[new_to |-> "Off"],
     [triggers |-> <<trigAfter9>>],
     [new_from |-> "", guard |-> litActive, actions |-> <<>>],
     [new_from |-> "Far", new_to |-> "Off"]}

UpdateTransitionEdits ==
    {[op |-> "update_transition", from |-> pr[1], to |-> pr[2]] @@ pl :
        pr \in PatchPairs, pl \in UpdatePayloads}
    \cup {[op |-> "update_transition", from |-> pr[1], to |-> pr[2], index |-> k] @@ pl :
            pr \in PatchPairs, pl \in UpdatePayloads, k \in PatchIndexes \ {-1}}
    \cup {[op |-> "update_transition", from |-> "Idle", to |-> "", index |-> 0]}
    \cup {e \in MockEdits : e.op = "update_transition"}

UnsupportedEdits == {[op |-> "rename_state", state_id |-> "Idle"], [state_id |-> "Idle"]}

\* An entry of patch.edits that is not a dict.
NonDictEdit == [nondict |-> TRUE]

NoIR == [kind |-> "none"]

PatchInit ==
    /\ p_parent \in PatchParents
    /\ p_parent0 = p_parent
    /\ p_ir = NoIR
    /\ p_shared = FALSE
    /\ p_pc = "call"
    /\ p_n = 0
    /\ p_prev = NoIR
    /\ p_last = [edit |-> NonDictEdit, raised |-> FALSE, message |-> ""]
    /\ p_result = NoIR
    /\ e_bundle = Idle /\ e_before = Idle /\ e_args = Idle /\ e_parent = Idle
    /\ e_patch = Idle /\ e_ir = Idle /\ e_report = Idle /\ e_repairs = Idle
    /\ e_log = Idle /\ e_runs = Idle /\ e_pc = Idle
    /\ d_ir = Idle /\ d_in = Idle /\ d_synth = Idle /\ d_pass = Idle
    /\ n_cat = Idle /\ n_ir = Idle /\ n_prev = Idle /\ n_pass = Idle
    /\ r_orig = Idle /\ r_text = Idle /\ r_ir = Idle /\ r_diags = Idle
    /\ r_diff = Idle /\ r_pc = Idle /\ r_dec = Idle
    /\ v_dir = Idle /\ v_ir = Idle /\ v_devs = Idle /\ v_caps = Idle
    /\ v_diags = Idle /\ v_stages = Idle /\ v_pc = Idle

\* apply_ir_patch up to the loop: the defensive copy and the shape checks.
Call ==
    /\ p_pc = "call"
    /\ LET c == deepcopy(p_parent)
       IN /\ p_ir' = c.value
          /\ p_shared' = c.shared
          /\ IF Has(c.value, "stateMachine")
             THEN p_pc' = "loop" /\ p_result' = p_result
             ELSE p_pc' = "raised" /\ p_result' = NoIR
    /\ UNCHANGED <<p_parent, p_parent0, p_n, p_prev, p_last>>
    /\ UNCHANGED patchOthers

\* One iteration of `for e in edits` on a dict entry e.  A write to ir is a
\* write to parent_ir when the two are one object.
EditStep(e) ==
    /\ p_pc = "loop"
    /\ p_n < MaxEdits
    /\ LET res == ApplyEdit(p_ir.stateMachine, e)
           new_ir == [p_ir EXCEPT !.stateMachine = res.sm]
       IN /\ p_prev' = p_ir
          /\ p_last' = [edit |-> e, raised |-> res.raised, message |-> Get(res, "message", "")]
          /\ p_n' = p_n + 1
          /\ p_ir' = new_ir
          /\ p_parent' = IF p_shared THEN new_ir ELSE p_parent
          /\ p_pc' = IF res.raised THEN "raised" ELSE "loop"
          /\ p_result' = p_result
    /\ UNCHANGED <<p_parent0, p_shared>>
    /\ UNCHANGED patchOthers

\* One action per op of the dispatch; the last is the final `raise` for an op
\* that is none of the seven.
SetStateLabel ==
    /\ p_pc = "loop"
    /\ \E e \in SetStateLabelEdits : EditStep(e)
SetInitial ==
    /\ p_pc = "loop"
    /\ \E e \in SetInitialEdits : EditStep(e)
AddState ==
    /\ p_pc = "loop"
    /\ \E e \in AddStateEdits : EditStep(e)
RemoveState ==
    /\ p_pc = "loop"
    /\ \E e \in RemoveStateEdits : EditStep(e)
RemoveTransition ==
    /\ p_pc = "loop"
    /\ \E e \in RemoveTransitionEdits : EditStep(e)
AddTransition ==
    /\ p_pc = "loop"
    /\ \E e \in AddTransitionEdits : EditStep(e)
UpdateTransition ==
    /\ p_pc = "loop"
    /\ \E e \in UpdateTransitionEdits : EditStep(e)
UnsupportedOp ==
    /\ p_pc = "loop"
    /\ \E e \in UnsupportedEdits : EditStep(e)

\* `if not isinstance(e, dict): continue`
SkipNonDict ==
    /\ p_pc = "loop"
    /\ p_n < MaxEdits
    /\ p_prev' = p_ir
    /\ p_last' = [edit |-> NonDictEdit, raised |-> FALSE, message |-> ""]
    /\ p_n' = p_n + 1
    /\ UNCHANGED <<p_parent, p_parent0, p_ir, p_shared, p_pc, p_result>>
    /\ UNCHANGED patchOthers

\* The end of patch.edits: `return ir`.
Return ==
    /\ p_pc = "loop"
    /\ p_pc' = "returned"
    /\ p_result' = [kind |-> "ir", ir |-> p_ir]
    /\ UNCHANGED <<p_parent, p_parent0, p_ir, p_shared, p_n, p_prev, p_last>>
    /\ UNCHANGED patchOthers

PatchNext ==
    \/ Call
    \/ SetStateLabel
    \/ SetInitial
    \/ AddState
    \/ RemoveState
    \/ RemoveTransition
    \/ AddTransition
    \/ UpdateTransition
    \/ UnsupportedOp
    \/ SkipNonDict
    \/ Return

SpecPatch == PatchInit /\ [][PatchNext]_vars

\* ---------------------------------------------------- patch engine: claims

LastEdit == p_last.edit

\* The last entry consumed was a dict with this op.
LastOp(op) == p_n >= 1 /\ Get(LastEdit, "op", "None") = op

ValidPair(e) == Get(e, "from", "") # "" /\ Get(e, "to", "") # ""

IsMatch(t, e) == t.from = e.from /\ t.to = e.to

NMatches(ts, e) == Cardinality({i \in DOMAIN ts : IsMatch(ts[i], e)})

\* Position in ts of the k-th (0-based) transition with the edit's pair.
KthMatch(ts, e, k) ==
    CHOOSE g \in DOMAIN ts :
        /\ IsMatch(ts[g], e)
        /\ Cardinality({j \in 1..(g - 1) : IsMatch(ts[j], e)}) = k

\* ts2 is ts without its g-th element.
Removed(ts, ts2, g) ==
    /\ Len(ts2) = Len(ts) - 1
    /\ \A j \in DOMAIN ts2 : ts2[j] = IF j < g THEN ts[j] ELSE ts[j + 1]

\* ts2 is ts with only its g-th element changed, which shows the edit's fields.
OnlyUpdated(ts, ts2, g, e) ==
    /\ Len(ts2) = Len(ts)
    /\ \A j \in DOMAIN ts : j # g => ts2[j] = ts[j]
    /\ Has(e, "triggers") => ts2[g].triggers = e.triggers
    /\ Has(e, "guard") => Has(ts2[g], "guard") /\ ts2[g].guard = e.guard
    /\ Has(e, "actions") => ts2[g].actions = e.actions
    /\ Get(e, "new_to", "") # "" => ts2[g].to = e.new_to
    /\ Get(e, "new_from", "") # "" => ts2[g].from = e.new_from

\* C6: apply_ir_patch never mutates parent_ir, whether it returns or raises
\* after any number of applied edits, and on a raise the caller receives no IR.
C6_ParentNeverMutated ==
    /\ p_parent = p_parent0
    /\ p_pc = "raised" => p_result = NoIR
    /\ p_pc = "returned" => p_result = [kind |-> "ir", ir |-> p_ir]

\* C6 witness: the second edit raised after the first had changed the copy.
C6_Witness ==
    /\ p_pc = "raised"
    /\ p_n = 2
    /\ p_prev # p_parent0
    /\ p_ir # p_parent

\* C7: remove_transition(from, to) without index removes exactly the first
\* transition with that pair and leaves everything else as it was; without a
\* match the IR is unchanged and nothing is raised.
C7_RemoveFirstMatch ==
    (LastOp("remove_transition") /\ ValidPair(LastEdit) /\ ~Has(LastEdit, "index")) =>
        LET ts == p_prev.stateMachine.transitions
            ts2 == p_ir.stateMachine.transitions
        IN /\ ~p_last.raised
           /\ p_ir.stateMachine.states = p_prev.stateMachine.states
           /\ p_ir.stateMachine.initial = p_prev.stateMachine.initial
           /\ IF NMatches(ts, LastEdit) = 0 THEN ts2 = ts
              ELSE Removed(ts, ts2, KthMatch(ts, LastEdit, 0))

\* C7 witness: the same removal twice; the first removed one of two parallel
\* transitions that do not sit next to each other, the second the other.
C7_Witness ==
    /\ p_n = 2
    /\ LastOp("remove_transition")
    /\ LastEdit = [op |-> "remove_transition", from |-> "Idle", to |-> "Lit"]
    /\ p_parent0.stateMachine.transitions = <<tIdleLit, tLitIdle, tIdleLit2, tLitOff>>
    /\ p_prev.stateMachine.transitions = <<tLitIdle, tIdleLit2, tLitOff>>
    /\ p_ir.stateMachine.transitions = <<tLitIdle, tLitOff>>

\* C8 (as claimed): remove_transition(from, to, index=k) removes the k-th
\* same-pair transition, and raises whenever k is negative or not smaller than
\* the number of same-pair matches, zero matches included.
C8_IndexedRemoveOrFatal ==
    (LastOp("remove_transition") /\ ValidPair(LastEdit) /\ Has(LastEdit, "index")) =>
        LET ts == p_prev.stateMachine.transitions
            ts2 == p_ir.stateMachine.transitions
            n == NMatches(ts, LastEdit)
            k == LastEdit.index
        IN IF 0 <= k /\ k < n
           THEN /\ ~p_last.raised
                /\ Removed(ts, ts2, KthMatch(ts, LastEdit, k))
                /\ p_ir.stateMachine.states = p_prev.stateMachine.states
           ELSE p_last.raised

\* C8 (amended): remove_transition(from, to, index=k) removes the k-th same-pair
\* transition (not the one at list position k); with at least one same-pair
\* match and k negative or not smaller than their number it raises; with no
\* same-pair match it returns the IR unchanged, whatever k is.
C8_IndexedRemove ==
    (LastOp("remove_transition") /\ ValidPair(LastEdit) /\ Has(LastEdit, "index")) =>
        LET ts == p_prev.stateMachine.transitions
            ts2 == p_ir.stateMachine.transitions
            n == NMatches(ts, LastEdit)
            k == LastEdit.index
        IN /\ (0 <= k /\ k < n) =>
                /\ ~p_last.raised
                /\ Removed(ts, ts2, KthMatch(ts, LastEdit, k))
                /\ p_ir.stateMachine.states = p_prev.stateMachine.states
           /\ (n > 0 /\ (k < 0 \/ k >= n)) => p_last.raised /\ p_ir = p_prev
           /\ n = 0 => ~p_last.raised /\ p_ir = p_prev

\* C8 witness: index 1 removed the second Idle -> Lit transition, which is the
\* third of the list, and left the transition at list position 1 in place.
C8_Witness ==
    /\ LastOp("remove_transition")
    /\ ValidPair(LastEdit)
    /\ Get(LastEdit, "index", 0) = 1
    /\ ~p_last.raised
    /\ p_prev.stateMachine.transitions = <<tIdleLit, tLitIdle, tIdleLit2, tLitOff>>
    /\ p_ir.stateMachine.transitions = <<tIdleLit, tLitIdle, tLitOff>>

\* C9: update_transition raises with no transition of the pair, raises (and
\* updates nothing) with two or more and no index, updates exactly the k-th
\* same-pair transition with index k in range, and the only one when there is
\* exactly one and no index.
C9_UpdateMatching ==
    (LastOp("update_transition") /\ ValidPair(LastEdit)) =>
        LET ts == p_prev.stateMachine.transitions
            ts2 == p_ir.stateMachine.transitions
            n == NMatches(ts, LastEdit)
            indexed == Has(LastEdit, "index")
        IN /\ n = 0 => p_last.raised /\ p_ir = p_prev
           /\ (n >= 2 /\ ~indexed) => p_last.raised /\ p_ir = p_prev
           /\ (indexed /\ 0 <= LastEdit.index /\ LastEdit.index < n) =>
                /\ ~p_last.raised
                /\ OnlyUpdated(ts, ts2, KthMatch(ts, LastEdit, LastEdit.index), LastEdit)
           /\ (n = 1 /\ ~indexed) =>
                /\ ~p_last.raised
                /\ OnlyUpdated(ts, ts2, KthMatch(ts, LastEdit, 0), LastEdit)

\* C9 witness: index 1 updated the second Idle -> Lit transition, the third of
\* the list, and left the first untouched.
C9_Witness ==
    /\ LastOp("update_transition")
    /\ Get(LastEdit, "index", 0) = 1
    /\ Has(LastEdit, "triggers")
    /\ ~p_last.raised
    /\ p_prev.stateMachine.transitions = <<tIdleLit, tLitIdle, tIdleLit2, tLitOff>>
    /\ p_ir.stateMachine.transitions =
          <<tIdleLit, tLitIdle, [tIdleLit2 EXCEPT !.triggers = <<trigAfter9>>], tLitOff>>

TouchesState(t, sid) == t.from = sid \/ t.to = sid

\* C10: remove_state(s) leaves no state s and no transition from or to s, keeps
\* every other state and transition in order, and leaves initial as it was,
\* also when initial is s; on Idle <-> Lit, removing Lit leaves the one state
\* Idle and no transition.
C10_RemoveStateCascades ==
    (LastOp("remove_state") /\ Get(LastEdit, "state_id", "") # "") =>
        LET sid == LastEdit.state_id
            old == p_prev.stateMachine
            new == p_ir.stateMachine
        IN /\ ~p_last.raised
           /\ \A st \in Range(new.states) : st.id # sid
           /\ \A t \in Range(new.transitions) : ~TouchesState(t, sid)
           /\ new.states = SelectSeq(old.states, LAMBDA st : st.id # sid)
           /\ new.transitions =
                 SelectSeq(old.transitions, LAMBDA t : ~TouchesState(t, sid))
           /\ new.initial = old.initial
           /\ (old.states = <<[id |-> "Idle"], [id |-> "Lit"]>>
                 /\ old.transitions = <<tIdleLit, tLitIdle>> /\ sid = "Lit") =>
                 new.states = <<[id |-> "Idle"]>> /\ new.transitions = <<>>

\* C10 witness: the initial state Idle was removed from a machine of three
\* states and four transitions; Lit -> Off is the one transition left.
C10_Witness ==
    /\ LastOp("remove_state")
    /\ Get(LastEdit, "state_id", "") = "Idle"
    /\ p_prev.stateMachine.transitions = <<tIdleLit, tLitIdle, tIdleLit2, tLitOff>>
    /\ p_ir.stateMachine.transitions = <<tLitOff>>
    /\ p_ir.stateMachine.initial = "Idle"
    /\ Len(p_ir.stateMachine.states) = 2

\* The entry's op is none of the seven.
UnknownOp(e) == Get(e, "op", "None") \notin SupportedOps

\* A field the op cannot do without is missing or empty: state_id for the four
\* state ops, from and to for the three transition ops, and label (which may
\* be the empty string) for set_state_label.
LacksField(e) ==
    LET op == Get(e, "op", "None")
    IN \/ op \in {"set_state_label", "set_initial", "add_state", "remove_state"}
            /\ Get(e, "state_id", "") = ""
       \/ op = "set_state_label" /\ ~Has(e, "label")
       \/ op \in {"remove_transition", "add_transition", "update_transition"}
            /\ ~ValidPair(e)

\* The last entry consumed made apply_ir_patch raise; it returned no IR and,
\* for an unknown op, the error names the op.
FatalAtLast ==
    /\ p_last.raised
    /\ p_pc = "raised"
    /\ p_result = NoIR
    /\ UnknownOp(LastEdit) =>
          p_last.message = "Unsupported patch op: " \o Get(LastEdit, "op", "None")

C12_AddTransition ==
    (LastOp("add_transition") /\ ValidPair(LastEdit)) =>
        LET e == LastEdit
            old == p_prev.stateMachine
            new == p_ir.stateMachine
            ids == {st.id : st \in Range(old.states)}
            t == new.transitions[Len(new.transitions)]
            stubs == (IF e.from \in ids THEN <<>> ELSE <<[id |-> e.from]>>)
                     \o (IF e.to \in ids \cup {e.from} THEN <<>> ELSE <<[id |-> e.to]>>)
        IN /\ ~p_last.raised
           /\ Len(new.transitions) = Len(old.transitions) + 1
           /\ SubSeq(new.transitions, 1, Len(old.transitions)) = old.transitions
           /\ t.from = e.from /\ t.to = e.to
           /\ DOMAIN t = {"from", "to"} \cup (DOMAIN e \cap {"triggers", "guard", "actions"})
           /\ \A k \in DOMAIN t : t[k] = e[k]
           /\ new.states = old.states \o stubs
           /\ {e.from, e.to} \subseteq {st.id : st \in Range(new.states)}
           /\ new.initial = old.initial

\* C12 witness: a transition with triggers and actions and no guard was added
\* from the declared state Lit to the undeclared state Far.
C12_Witness ==
    /\ LastOp("add_transition")
    /\ LastEdit = [op |-> "add_transition", from |-> "Lit", to |-> "Far",
                   triggers |-> <<trigAfter9>>, actions |-> <<cmdOff>>]
    /\ p_prev.stateMachine.states = <<[id |-> "Idle"], [id |-> "Lit"]>>
    /\ p_ir.stateMachine.states = <<[id |-> "Idle"], [id |-> "Lit"], [id |-> "Far"]>>
    /\ p_ir.stateMachine.transitions =
          <<tIdleLit, tLitIdle,
            [from |-> "Lit", to |-> "Far", triggers |-> <<trigAfter9>>, actions |-> <<cmdOff>>]>>

\* ------------------------------------------------------------ normalization
\* normalize.py works on loosely shaped documents.  In this model the value
\* under a key has one type: ids, names, commands and types are strings,
\* seconds and durations are integers, "trigger"/"action"/"ref"/"value"/
\* "parameters" hold dicts, "triggers"/"actions"/"states"/"devices" hold
\* lists of dicts.

\* Python's None, where a string is expected.
None == "<None>"

\* a or b or ... over string-or-None values: the first truthy value, else the last
RECURSIVE OrChain(_)
OrChain(vals) ==
    IF Len(vals) = 1 THEN vals[1]
    ELSE IF vals[1] # None /\ vals[1] # "" THEN vals[1]
    ELSE OrChain(Tail(vals))

\* d.get(k1) or d.get(k2) or ...
OrGet(d, keys) == OrChain([i \in DOMAIN keys |-> Get(d, keys[i], None)])

IsStr(v) == v # None

\* The element of a one-element set.  Only({f(u) : u \in {e}}) is f(e) with e
\* evaluated once and bound to u as a value.
Only(S) == CHOOSE y \in S : TRUE

\* d[new] = d.pop(old)
Rename(d, old, new) == Put(Drop(d, old), new, d[old])

\* str.strip() on the strings of the model that carry outer blanks
Strip(s) ==
    CASE s = " home " -> "home"
      [] s = " OFF " -> "OFF"
      [] s = " changes " -> "changes"
      [] OTHER -> s

\* str.lower() on the strings of the model that carry capitals
Lower(s) ==
    CASE s = "Detected" -> "detected"
      [] s = "OFF" -> "off"
      [] s = "Turn_On" -> "turn_on"
      [] s = "Minutes" -> "minutes"
      [] OTHER -> s

StripLower(s) == Lower(Strip(s))

\* Every string the program sorts, in Python's (code point) order.
SortedStrings ==
    <<"A", "B", "Idle", "Idle|Idle", "Idle|Resting", "Idle|Say \"hi\"",
      "Idle|Say \\\"hi\\\"", "Lit", "Off", "Wait_120s_1", "Wait_300s_1",
      "Wait_5s_1", "Wait_7s_1",
      "lamp1", "light_hall", "motion1", "motion_hall", "siren1">>

\* sorted(S) for a set of strings
sorted(S) == SelectSeq(SortedStrings, LAMBDA x : x \in S)

\* id_to_kind.get(id): devices first, globals after, later entries win
id_to_kind(device_catalog, id) ==
    LET all == device_catalog.devices \o device_catalog.globals
        hits == {i \in DOMAIN all : all[i].id = id}
    IN IF hits = {} THEN None
       ELSE all[CHOOSE i \in hits : \A j \in hits : j <= i].kind

\* _unit_seconds for a numeric duration
_unit_seconds(duration, unit) ==
    IF unit = None THEN duration
    ELSE LET u == StripLower(unit)
         IN IF u \in {"s", "sec", "secs", "second", "seconds"} THEN duration
            ELSE IF u \in {"m", "min", "mins", "minute", "minutes"} THEN duration * 60
            ELSE IF u \in {"h", "hr", "hrs", "hour", "hours"} THEN duration * 3600
            ELSE duration

\* coerce_ir_shape, devices: repair the listed devices, else infer them from
\* the device keys of the triggers and actions
coerce_devices(ir, device_catalog) ==
    LET kindOf(id) == Only({IF k = None THEN "unknown" ELSE k :
                                k \in {id_to_kind(device_catalog, id)}})
        name_to_id(d) == IF ~Has(d, "id") /\ Has(d, "name") THEN Rename(d, "name", "id") ELSE d
        with_kind(d) == IF ~Has(d, "kind") /\ Has(d, "id") THEN Put(d, "kind", kindOf(d.id)) ELSE d
        repair(x) == IF Has(x, "devices")
                     THEN [x EXCEPT !.devices =
                              [i \in DOMAIN @ |->
                                  Only({with_kind(name_to_id(u)) : u \in {@[i]}})]]
                     ELSE x
        listOf(tr, plural, singular) ==
            IF Has(tr, plural) THEN tr[plural]
            ELSE IF Has(tr, singular) THEN <<tr[singular]>> ELSE <<>>
        refsOf(tr) == {OrGet(x, <<"device", "deviceId", "device_id">>) :
                          x \in Range(listOf(tr, "triggers", "trigger"))
                                \cup Range(listOf(tr, "actions", "action"))}
        trans0(x) == IF Has(x, "stateMachine") /\ Has(x.stateMachine, "transitions")
                     THEN x.stateMachine.transitions ELSE <<>>
        inferred(x) == UNION {refsOf(tr) : tr \in Range(trans0(x))} \ {None, ""}
        listed(ids) == [i \in DOMAIN ids |-> [id |-> ids[i], kind |-> kindOf(ids[i])]]
        infer(x) == IF Has(x, "devices") /\ x.devices # <<>> THEN x
                    ELSE Only({IF ids = <<>> THEN x ELSE Put(x, "devices", listed(ids)) :
                                  ids \in {sorted(inferred(x))}})
        repaired == Only({repair(u) : u \in {ir}})
    IN Only({infer(u) : u \in {repaired}})

\* coerce_ir_shape, states: name -> id
coerce_state(st) ==
    LET s1 == IF ~Has(st, "id") /\ Has(st, "name") THEN Rename(st, "name", "id") ELSE st
    IN IF Has(s1, "name") /\ Has(s1, "id") /\ s1.name = s1.id THEN Drop(s1, "name") ELSE s1

\* coerce_ir_shape, one trigger
coerce_trigger(t) ==
    LET devKeys == <<"device", "deviceId", "device_id">>
        attrKeys == <<"path", "attribute", "attr", "property", "prop">>
        refVals(keys) == IF Has(t, "ref")
                         THEN [i \in DOMAIN keys |-> Get(t.ref, keys[i], None)]
                         ELSE <<>>
        hasSecs == Has(t, "seconds") \/ Has(t, "duration")
        secs == IF Has(t, "seconds") THEN t.seconds
                ELSE _unit_seconds(t.duration, Get(t, "unit", None))
        timer(raw_typ) ==
            \/ raw_typ \in {"after", "timer", "delay"}
            \/ raw_typ = "schedule" /\ ~Has(t, "cron") /\ Has(t, "seconds")
            \/ raw_typ = None /\ (Has(t, "seconds") \/ Has(t, "duration"))
        value == IF Has(t, "value") THEN t.value
                 ELSE IF Has(t, "becomes") THEN [string |-> t.becomes]
                 ELSE Only({[string |-> IF v = None THEN "" ELSE v] :
                               v \in {OrGet(t, <<"equals", "state", "val">>)}})
        rebuilt(dev, attr, typ) ==
            IF typ = "becomes"
            THEN [type |-> typ, ref |-> [device |-> dev, path |-> attr], value |-> value]
            ELSE IF typ = "schedule"
            THEN Only({IF IsStr(cron)
                          THEN [type |-> typ, ref |-> [device |-> dev, path |-> attr],
                                cron |-> cron]
                          ELSE IF hasSecs THEN [type |-> "after", seconds |-> secs]
                          ELSE [type |-> typ, ref |-> [device |-> dev, path |-> attr]] :
                       cron \in {OrGet(t, <<"cron", "schedule", "time", "at", "event">>)}})
            ELSE [type |-> typ, ref |-> [device |-> dev, path |-> attr]]
        becomesKey(typ) == IF typ = None /\ Has(t, "becomes") THEN "becomes" ELSE typ
        inferType(dev, attr, typ) ==
            IF typ = None /\ IsStr(dev) /\ IsStr(attr)
            THEN (IF {"value", "equals", "state", "becomes", "val"} \cap DOMAIN t # {}
                  THEN "becomes" ELSE "changes")
            ELSE typ
        scheduleKeys(typ) == IF typ = None /\ {"cron", "schedule", "time"} \cap DOMAIN t # {}
                             THEN "schedule" ELSE typ
        stripped(typ) == IF IsStr(typ) THEN Strip(typ) ELSE None
        coerce(dev, attr, typ0) ==
            IF timer(IF IsStr(typ0) THEN StripLower(typ0) ELSE None) /\ hasSecs
            THEN [type |-> "after", seconds |-> secs]
            ELSE Only({IF IsStr(dev) /\ IsStr(attr) /\ IsStr(typ)
                       THEN rebuilt(dev, attr, typ) ELSE t :
                       typ \in {stripped(scheduleKeys(inferType(dev, attr, becomesKey(typ0))))}})
    IN Only({coerce(d[1], d[2], d[3]) :
                d \in {<<OrChain(<<OrGet(t, devKeys)>> \o refVals(devKeys)),
                         OrChain(<<OrGet(t, attrKeys)>> \o refVals(attrKeys)),
                         OrGet(t, <<"type", "condition", "event">>)>>}})

NoopCommands == {"none", "noop", "no-op", "do_nothing", "do nothing", "nothing"}

\* coerce_ir_shape, one action: keep is FALSE when the loop drops the action
coerce_action(a, device_catalog) ==
    LET typeOf(x) == Get(x, "type", None)
        s1(x) == IF ~Has(x, "type") /\ Has(x, "device") /\ Has(x, "command")
                 THEN Put(x, "type", "command") ELSE x
        s2(x) == IF ~Has(x, "type") /\ Get(x, "action", None) = "delay"
                 THEN Put(x, "type", "delay") ELSE x
        s3(x) == IF typeOf(x) = "delay" /\ ~Has(x, "seconds") /\ Has(x, "duration")
                 THEN Put(Drop(Drop(x, "duration"), "unit"), "seconds",
                          _unit_seconds(x.duration, Get(x, "unit", None)))
                 ELSE x
        s4(x) == IF typeOf(x) = "delay" THEN Drop(x, "action") ELSE x
        s5(x) == IF typeOf(x) = "command" /\ ~Has(x, "device")
                 THEN Put(Drop(x, "deviceId"), "device",
                          OrChain(<<Get(x, "deviceId", None), None>>))
                 ELSE x
        s6(x) == IF typeOf(x) = "command" /\ ~Has(x, "args") /\ Has(x, "parameters")
                 THEN Drop(IF Has(x.parameters, "mode")
                           THEN Put(x, "args", <<[string |-> x.parameters.mode]>>)
                           ELSE IF Cardinality(DOMAIN x.parameters) = 1
                           THEN Put(x, "args",
                                    <<[string |-> x.parameters[
                                          CHOOSE k \in DOMAIN x.parameters : TRUE]]>>)
                           ELSE x,
                           "parameters")
                 ELSE x
        aliased(x) == /\ typeOf(x) = "command"
                      /\ IsStr(Get(x, "device", None))
                      /\ IsStr(Get(x, "command", None))
        isAlarm(x) == id_to_kind(device_catalog, x.device) = "alarm"
        s7(x) == IF aliased(x) /\ isAlarm(x) /\ StripLower(x.command) = "on"
                 THEN Put(x, "command", "siren")
                 ELSE IF aliased(x) /\ isAlarm(x)
                         /\ StripLower(x.command) \in {"deactivate", "disable"}
                 THEN Put(x, "command", "off")
                 ELSE x
        s8(x) == IF typeOf(x) = "notify" /\ ~Has(x, "message")
                 THEN (IF Has(x, "text") THEN Rename(x, "text", "message")
                       ELSE IF Has(x, "msg") THEN Rename(x, "msg", "message")
                       ELSE Put(x, "message", ""))
                 ELSE x
        s9(x) == IF aliased(x) /\ StripLower(x.command) \in NoopCommands
                 THEN [keep |-> FALSE, a |-> x]
                 ELSE [keep |-> TRUE, a |-> s8(s7(x))]
        a1 == Only({s1(u) : u \in {a}})
        a2 == Only({s2(u) : u \in {a1}})
        a3 == Only({s3(u) : u \in {a2}})
        a4 == Only({s4(u) : u \in {a3}})
        a5 == Only({s5(u) : u \in {a4}})
        a6 == Only({s6(u) : u \in {a5}})
    IN Only({s9(u) : u \in {a6}})

\* coerce_ir_shape, one transition
coerce_transition(tr, initial, state_ids, device_catalog) ==
    LET s1(x) == IF ~Has(x, "to") /\ Has(x, "target") THEN Rename(x, "target", "to") ELSE x
        s2(x) == IF ~Has(x, "to") /\ Has(x, "next") THEN Rename(x, "next", "to") ELSE x
        s3(x) == IF ~Has(x, "from") /\ Has(x, "source") THEN Rename(x, "source", "from") ELSE x
        s4(x) == IF ~Has(x, "from") /\ Has(x, "state") THEN Rename(x, "state", "from") ELSE x
        s5(x) == IF ~Has(x, "triggers") /\ Has(x, "trigger")
                 THEN Put(Drop(x, "trigger"), "triggers", <<x.trigger>>) ELSE x
        s6(x) == IF ~Has(x, "actions") /\ Has(x, "action")
                 THEN Put(Drop(x, "action"), "actions", <<x.action>>) ELSE x
        s7(x) == IF Get(x, "from", "") = "" THEN Put(x, "from", initial) ELSE x
        fallback_to(x) ==
            LET others == {i \in DOMAIN state_ids : state_ids[i] # x.from}
            IN IF others = {} THEN x.from ELSE state_ids[SetMin(others)]
        s8(x) == IF Get(x, "to", "") = "" THEN Put(x, "to", fallback_to(x)) ELSE x
        s9(x) == IF ~Has(x, "triggers") THEN Put(x, "triggers", <<>>) ELSE x
        s10(x) == IF ~Has(x, "actions") THEN Put(x, "actions", <<>>) ELSE x
        kept(res) == SelectSeq(res, LAMBDA r : r.keep)
        unwrap(res) == [i \in 1..Len(res) |-> res[i].a]
        s11(x) ==
            [x EXCEPT !.triggers = [i \in DOMAIN @ |-> coerce_trigger(@[i])],
                      !.actions =
                          Only({unwrap(kept(u)) : u \in
                                  {[i \in DOMAIN @ |-> coerce_action(@[i], device_catalog)]}})]
        t1 == Only({s1(u) : u \in {tr}})
        t2 == Only({s2(u) : u \in {t1}})
        t3 == Only({s3(u) : u \in {t2}})
        t4 == Only({s4(u) : u \in {t3}})
        t5 == Only({s5(u) : u \in {t4}})
        t6 == Only({s6(u) : u \in {t5}})
        t7 == Only({s7(u) : u \in {t6}})
        t8 == Only({s8(u) : u \in {t7}})
        t9 == Only({s9(u) : u \in {t8}})
        t10 == Only({s10(u) : u \in {t9}})
    IN Only({s11(u) : u \in {t10}})

coerce_ir_shape(ir, device_catalog) ==
    LET first_state_id(sts) ==
            IF sts # <<>> /\ Has(sts[1], "id") /\ sts[1].id # "" THEN sts[1].id ELSE "Idle"
        ids(withId) == [i \in DOMAIN withId |-> withId[i].id]
        state_ids(sm) ==
            Only({ids(u) : u \in {SelectSeq(Get(sm, "states", <<>>), LAMBDA st : Has(st, "id"))}})
        s1(sm) == IF Has(sm, "states")
                  THEN [sm EXCEPT !.states = [i \in DOMAIN @ |-> coerce_state(@[i])]]
                  ELSE sm
        s2(sm) == IF Get(sm, "initial", "") = ""
                  THEN Put(sm, "initial", first_state_id(Get(sm, "states", <<>>)))
                  ELSE sm
        s3(sm) == IF Has(sm, "transitions")
                  THEN [sm EXCEPT !.transitions =
                           [i \in DOMAIN @ |->
                               coerce_transition(@[i], sm.initial, state_ids(sm), device_catalog)]]
                  ELSE sm
        shape(x) == IF ~Has(x, "stateMachine") THEN x
                    ELSE [x EXCEPT !.stateMachine =
                             Only({s3(w) : w \in {Only({s2(v) : v \in
                                     {Only({s1(u) : u \in {@}})}})}})]
    IN Only({shape(u) : u \in {coerce_devices(ir, device_catalog)}})

\* VALUE_SYNONYMS.get(s)
VALUE_SYNONYMS(s) ==
    CASE s \in {"detected", "motion", "movement"} -> "active"
      [] s \in {"no motion", "no_motion"} -> "inactive"
      [] s = "opened" -> "open"
      [] s = "shut" -> "closed"
      [] s = "home" -> "present"
      [] s \in {"away", "not_home"} -> "not present"
      [] s = "true" -> "on"
      [] s = "false" -> "off"
      [] OTHER -> None

_normalize_literal(lit) ==
    IF Has(lit, "string")
    THEN LET s == Strip(lit.string)
             syn == VALUE_SYNONYMS(Lower(s))
         IN [string |-> IF syn # None THEN syn ELSE s]
    ELSE lit

RECURSIVE walk_expr(_)
walk_expr(expr) ==
    LET e1 == IF Has(expr, "lit") THEN [expr EXCEPT !.lit = _normalize_literal(@)] ELSE expr
    IN IF Has(e1, "op") /\ Has(e1, "args")
       THEN [e1 EXCEPT !.args = [i \in DOMAIN @ |-> walk_expr(@[i])]]
       ELSE e1

walk_triggers(triggers) ==
    [i \in DOMAIN triggers |->
        IF Get(triggers[i], "type", None) = "becomes" /\ Has(triggers[i], "value")
        THEN [triggers[i] EXCEPT !.value = _normalize_literal(@)]
        ELSE triggers[i]]

walk_actions(actions) ==
    [i \in DOMAIN actions |->
        LET a == actions[i]
            c == StripLower(Get(a, "command", None))
        IN IF Get(a, "type", None) = "command" /\ Has(a, "command")
           THEN (IF c \in {"turn_on", "turnon", "on"} THEN [a EXCEPT !.command = "on"]
                 ELSE IF c \in {"turn_off", "turnoff", "off"} THEN [a EXCEPT !.command = "off"]
                 ELSE a)
           ELSE a]

normalize_ir(ir) ==
    IF ~Has(ir, "stateMachine") THEN ir
    ELSE
    LET sm == ir.stateMachine
        walk_tr(tr) ==
            LET t1 == IF Has(tr, "triggers") THEN [tr EXCEPT !.triggers = walk_triggers(@)] ELSE tr
                t2 == IF Has(t1, "guard") THEN [t1 EXCEPT !.guard = walk_expr(@)] ELSE t1
            IN IF Has(t2, "actions") THEN [t2 EXCEPT !.actions = walk_actions(@)] ELSE t2
        walk_st(st) ==
            IF Has(st, "invariants")
            THEN [st EXCEPT !.invariants = [i \in DOMAIN @ |-> walk_expr(@[i])]]
            ELSE st
        sm1 == IF Has(sm, "transitions")
               THEN [sm EXCEPT !.transitions = [i \in DOMAIN @ |-> walk_tr(@[i])]]
               ELSE sm
        sm2 == IF Has(sm1, "states")
               THEN [sm1 EXCEPT !.states = [i \in DOMAIN @ |-> walk_st(@[i])]]
               ELSE sm1
    IN [ir EXCEPT !.stateMachine = sm2]

\* ------------------------------------------- normalization: specification

NormCatalog ==
    [devices |-> <<[id |-> "lamp1", kind |-> "switch"],
                   [id |-> "siren1", kind |-> "alarm"]>>,
     globals |-> <<[id |-> "motion1", kind |-> "motionSensor"]>>]

NormTriggers ==
    {[type |-> "becomes", ref |-> [device |-> "motion1", path |-> "motion"],
      value |-> [string |-> "Detected"]],
     [device |-> "motion1", attribute |-> "motion", becomes |-> "active"],
     [deviceId |-> "motion1", attr |-> "motion", event |-> " changes "],
     [deviceId |-> "motion1", property |-> "presence", value |-> [string |-> " home "]],
     [type |-> "timer", duration |-> 2, unit |-> "Minutes"],
     [type |-> "after", seconds |-> 30],
     [seconds |-> 5],
     [type |-> "schedule", cron |-> "0 7 * * *"]}

NormActions ==
    {[type |-> "command", device |-> "lamp1", command |-> "Turn_On"],
     [device |-> "siren1", command |-> "turn_on"],
     [type |-> "command", device |-> "siren1", command |-> "on"],
     [type |-> "command", device |-> "siren1", command |-> "disable"],
     [type |-> "command", deviceId |-> "lamp1", command |-> " OFF "],
     [type |-> "command", device |-> "lamp1", command |-> "noop"],
     [type |-> "command", device |-> "lamp1", command |-> "setLevel",
      parameters |-> [level |-> "50"]],
     [action |-> "delay", duration |-> 1, unit |-> "min"],
     [type |-> "delay", seconds |-> 5],
     [type |-> "notify", text |-> "hi"]}

NormGuard ==
    [op |-> "eq", args |-> <<[ref |-> [device |-> "motion1", path |-> "motion"]],
                             [lit |-> [string |-> "Detected"]]>>]

\* The document shapes: how the transition, the states and the devices are keyed.
NormShapes == {"canonical", "aliases", "singular", "bare"}

NormDocument(shape, trigger, actions, guarded) ==
    LET g(tr) == IF guarded THEN Put(tr, "guard", NormGuard) ELSE tr
    IN CASE shape = "canonical" ->
              [version |-> "0.1",
               devices |-> <<[id |-> "lamp1", kind |-> "switch"],
                             [id |-> "motion1", kind |-> "motionSensor"],
                             [id |-> "siren1", kind |-> "alarm"]>>,
               stateMachine |->
                   [initial |-> "A",
                    states |-> <<[id |-> "A"], [id |-> "B", invariants |-> <<NormGuard>>]>>,
                    transitions |-> <<g([from |-> "A", to |-> "B",
                                         triggers |-> <<trigger>>, actions |-> actions])>>]]
         [] shape = "aliases" ->
              [version |-> "0.1",
               devices |-> <<[name |-> "lamp1"], [id |-> "siren1"]>>,
               stateMachine |->
                   [states |-> <<[name |-> "A"], [id |-> "B", name |-> "B"]>>,
                    transitions |-> <<g([source |-> "B", target |-> "A",
                                         triggers |-> <<trigger>>, actions |-> actions])>>]]
         [] shape = "singular" ->
              [version |-> "0.1",
               devices |-> <<>>,
               stateMachine |->
                   [initial |-> "B",
                    states |-> <<[id |-> "A"], [id |-> "B"]>>,
                    transitions |-> <<g([state |-> "A", next |-> "B",
                                         trigger |-> trigger, actions |-> actions])>>]]
         [] OTHER ->
              [version |-> "0.1",
               stateMachine |->
                   [initial |-> "",
                    states |-> <<[id |-> "A"], [id |-> "B"]>>,
                    transitions |-> <<g([triggers |-> <<trigger>>, actions |-> actions])>>]]

NormalizeInit ==
    /\ \E shape \in NormShapes, trigger \in NormTriggers,
          actions \in SeqsUpTo(NormActions, 2), guarded \in BOOLEAN :
            n_ir = NormDocument(shape, trigger, actions, guarded)
    /\ n_cat = NormCatalog
    /\ n_prev = NoIR
    /\ n_pass = 0
    /\ e_bundle = Idle /\ e_before = Idle /\ e_args = Idle /\ e_parent = Idle
    /\ e_patch = Idle /\ e_ir = Idle /\ e_report = Idle /\ e_repairs = Idle
    /\ e_log = Idle /\ e_runs = Idle /\ e_pc = Idle
    /\ d_ir = Idle /\ d_in = Idle /\ d_synth = Idle /\ d_pass = Idle
    /\ p_parent = Idle /\ p_parent0 = Idle /\ p_ir = Idle /\ p_shared = Idle
    /\ p_pc = Idle /\ p_n = Idle /\ p_prev = Idle /\ p_last = Idle
    /\ p_result = Idle
    /\ r_orig = Idle /\ r_text = Idle /\ r_ir = Idle /\ r_diags = Idle
    /\ r_diff = Idle /\ r_pc = Idle /\ r_dec = Idle
    /\ v_dir = Idle /\ v_ir = Idle /\ v_devs = Idle /\ v_caps = Idle
    /\ v_diags = Idle /\ v_stages = Idle /\ v_pc = Idle

\* The normalization step of the pipeline: coerce_ir_shape, then normalize_ir.
NormalizePass ==
    /\ n_pass <= MaxPasses
    /\ n_prev' = n_ir
    /\ n_ir' = normalize_ir(coerce_ir_shape(n_ir, n_cat))
    /\ n_pass' = n_pass + 1
    /\ UNCHANGED n_cat
    /\ UNCHANGED normalizeOthers

NormalizeNext == NormalizePass

SpecNormalize == NormalizeInit /\ [][NormalizeNext]_vars

\* C2: normalization is idempotent: applying coerce_ir_shape followed by
\* normalize_ir to its own output returns that output unchanged, command
\* alias rules (turn_on -> on, on -> siren for alarm devices) included.
C2_NormalizeIdempotent == n_pass >= 2 => n_ir = n_prev


\* ------------------------------------------------------------ PlantUML text
\* A text is a sequence of lines and a line a sequence of tokens: the words,
\* identifiers, quoted strings and numbers the encoder writes and the regular
\* expressions of the decoder take apart.  A token holds its kind k ("kw" a
\* word or sign of the notation, "id" an identifier, "str" a quoted string
\* with v the characters between the quotes, "num" a number, "secs" <n>s,
\* "text" free text up to the end of the line) and its characters v.

Tok(k, v) == [k |-> k, v |-> v]
Kw(v) == Tok("kw", v)

\* The integers the model writes as text and reads back.
Numerals == 0..60

\* int(text)
IntOf(text) == CHOOSE n \in Numerals : ToString(n) = text

\* sep.join(xs) over token sequences
RECURSIVE Join(_, _)
Join(xs, sep) ==
    IF xs = <<>> THEN <<>>
    ELSE IF Len(xs) = 1 THEN xs[1]
    ELSE xs[1] \o sep \o Join(Tail(xs), sep)

\* s.replace("\\", r"\\").replace('"', r'\"') on the strings of the model
_escape_puml_string(s) ==
    CASE s = "Say \"hi\"" -> "Say \\\"hi\\\""
      [] OTHER -> s

\* inner.replace(r'\"', '"').replace(r"\\", "\\") on the strings of the model
Unescape(s) ==
    CASE s = "Say \\\"hi\\\"" -> "Say \"hi\""
      [] OTHER -> s

\* str(n) for a number n.  The integers of the model stand for Python's ints,
\* which str writes in decimal digits; the one float of the model, 1e16 (JSON
\* 1e16 or 10000000000000000.0), is held as 2^30, and str writes it with an
\* exponent, as it writes every float from 1e16 on and below 1e-4.
StrOfNumber(n) == IF n = 2^30 THEN "1e+16" ELSE ToString(n)

_lit_to_str(lit) ==
    IF Has(lit, "string") THEN Tok("str", _escape_puml_string(lit.string))
    ELSE IF Has(lit, "number") THEN Tok("num", StrOfNumber(lit.number))
    ELSE IF Has(lit, "bool") THEN Kw(IF lit.bool THEN "true" ELSE "false")
    ELSE Kw("?")

\* {dev}.{path}
RefTokens(ref) == <<Tok("id", ref.device), Kw("."), Tok("id", ref.path)>>

_trigger_to_line(tg) ==
    LET t == Get(tg, "type", None)
    IN IF t = "becomes"
       THEN RefTokens(tg.ref) \o <<Kw("becomes"), _lit_to_str(Get(tg, "value", <<>>))>>
       ELSE IF t = "changes" THEN RefTokens(tg.ref) \o <<Kw("changes")>>
       ELSE IF t = "schedule" THEN <<Kw("schedule"), Tok("text", tg.cron)>>
       ELSE IF t = "after" THEN <<Kw("after"), Tok("secs", ToString(tg.seconds))>>
       ELSE <<Kw("unknown_trigger")>>

RECURSIVE _expr_to_str(_)
_expr_to_str(expr) ==
    IF Has(expr, "ref") THEN RefTokens(expr.ref)
    ELSE IF Has(expr, "lit") THEN <<_lit_to_str(expr.lit)>>
    ELSE LET op == Get(expr, "op", None)
             args == Get(expr, "args", <<>>)
             infix == CASE op = "eq" -> "==" [] op = "neq" -> "!=" [] op = "lt" -> "<"
                        [] op = "lte" -> "<=" [] op = "gt" -> ">" [] op = "gte" -> ">="
                        [] op = "and" -> "and" [] op = "or" -> "or" [] OTHER -> None
         IN IF op = "not" /\ Len(args) = 1
            THEN <<Kw("not"), Kw("(")>> \o _expr_to_str(args[1]) \o <<Kw(")")>>
            ELSE IF infix # None /\ Len(args) >= 2
            THEN <<Kw("(")>>
                 \o Join([i \in DOMAIN args |-> _expr_to_str(args[i])], <<Kw(infix)>>)
                 \o <<Kw(")")>>
            ELSE <<Kw("expr?")>>

\* The one line _action_to_lines returns.
_action_to_lines(act) ==
    LET t == Get(act, "type", None)
        args == Get(act, "args", <<>>)
    IN IF t = "command"
       THEN <<Tok("id", act.device), Kw("."), Tok("id", act.command), Kw("(")>>
            \o Join([i \in DOMAIN args |-> <<_lit_to_str(args[i])>>], <<Kw(",")>>)
            \o <<Kw(")")>>
       ELSE IF t = "delay" THEN <<Kw("delay"), Tok("secs", ToString(act.seconds))>>
       ELSE IF t = "notify"
       THEN <<Kw("notify"), _lit_to_str([string |-> Get(act, "message", "")])>>
       ELSE <<Kw("unknown_action")>>

ir_to_plantuml(ir, title) ==
    LET sm == ir.stateMachine
        \* the comment block under the title
        guide == [i \in 1..13 |-> <<Kw("'")>>] \o <<<<>>>>
        states == SelectSeq(sm.states, LAMBDA st : Get(st, "id", "") # "")
        state_lines ==
            [i \in DOMAIN states |->
                <<Kw("state"),
                  Tok("str", _escape_puml_string(Get(states[i], "label", states[i].id))),
                  Kw("as"), Tok("id", states[i].id)>>]
        note(st) ==
            LET inv == Get(st, "invariants", <<>>)
            IN IF inv = <<>> THEN <<>>
               ELSE <<<<Kw("note right of"), Tok("id", st.id)>>>>
                    \o [i \in DOMAIN inv |-> <<Kw("-")>> \o _expr_to_str(inv[i])]
                    \o <<<<Kw("end note")>>, <<>>>>
        transition(tr) ==
            LET triggers == Get(tr, "triggers", <<>>)
                actions == Get(tr, "actions", <<>>)
                trig_part ==
                    IF triggers = <<>> THEN <<>>
                    ELSE <<<<Kw("TRIGGER:")>>
                           \o Join([i \in DOMAIN triggers |-> _trigger_to_line(triggers[i])],
                                   <<Kw("AND")>>)>>
                guard_part == IF Has(tr, "guard")
                              THEN <<<<Kw("GUARD:")>> \o _expr_to_str(tr.guard)>> ELSE <<>>
                act_parts == [i \in DOMAIN actions |->
                                 <<Kw("ACTION:")>> \o _action_to_lines(actions[i])]
                label_parts == trig_part \o guard_part \o act_parts
            IN <<Tok("id", tr.from), Kw("-->"), Tok("id", tr.to)>>
               \o (IF label_parts = <<>> THEN <<>>
                   ELSE <<Kw(":")>> \o Join(label_parts, <<Kw("\\n")>>))
    IN <<<<Kw("@startuml")>>, <<Kw("title"), Tok("text", title)>>, <<>>>>
       \o guide
       \o state_lines
       \o <<<<>>, <<Kw("[*]"), Kw("-->"), Tok("id", sm.initial)>>, <<>>>>
       \o Join([i \in DOMAIN sm.states |-> note(sm.states[i])], <<>>)
       \o [i \in DOMAIN sm.transitions |-> transition(sm.transitions[i])]
       \o <<<<Kw("@enduml")>>>>

\* ------------------------------------------------------------------ decoder
\* The parsers return [ok |-> FALSE] where the code returns None.

Fail == [ok |-> FALSE]

\* re.fullmatch(r"-?\d+", t) on the number texts of the model
IsDigits(text) == \E n \in Numerals : ToString(n) = text

\* _parse_literal on one token
_parse_literal(tok) ==
    IF tok \in {Kw("true"), Kw("false")} THEN [ok |-> TRUE, lit |-> [bool |-> tok.v = "true"]]
    ELSE IF tok.k = "num" /\ IsDigits(tok.v)
    THEN [ok |-> TRUE, lit |-> [number |-> IntOf(tok.v)]]
    ELSE IF tok.k = "str" THEN [ok |-> TRUE, lit |-> [string |-> Unescape(tok.v)]]
    ELSE Fail

\* _ExprParser: _parse_or, _parse_and, _parse_cmp, _parse_unary and
\* _parse_primary by level; the result holds the expression e and the
\* tokens not yet consumed.
RECURSIVE _ExprParser(_, _)
RECURSIVE _ExprLoop(_, _, _)
_ExprParser(level, toks) ==
    LET cmpOps == {"==", "!=", "<", "<=", ">", ">="}
        op_map(s) == CASE s = "==" -> "eq" [] s = "!=" -> "neq" [] s = "<" -> "lt"
                       [] s = "<=" -> "lte" [] s = ">" -> "gt" [] s = ">=" -> "gte"
        isOp(rest) == rest # <<>> /\ rest[1].k = "kw" /\ rest[1].v \in cmpOps
        done(e, rest) == [ok |-> TRUE, e |-> e, rest |-> rest]
    IN CASE level = "or" ->
              Only({IF l.ok THEN _ExprLoop("or", <<l.e>>, l.rest) ELSE Fail :
                       l \in {_ExprParser("and", toks)}})
         [] level = "and" ->
              Only({IF l.ok THEN _ExprLoop("and", <<l.e>>, l.rest) ELSE Fail :
                       l \in {_ExprParser("cmp", toks)}})
         [] level = "cmp" ->
              Only({IF ~l.ok THEN Fail
                    ELSE IF isOp(l.rest)
                    THEN Only({IF r.ok
                               THEN done([op |-> op_map(l.rest[1].v), args |-> <<l.e, r.e>>],
                                         r.rest)
                               ELSE Fail :
                                  r \in {_ExprParser("unary", Tail(l.rest))}})
                    ELSE l :
                       l \in {_ExprParser("unary", toks)}})
         [] level = "unary" ->
              IF toks # <<>> /\ toks[1] = Kw("not")
              THEN Only({IF s.ok THEN done([op |-> "not", args |-> <<s.e>>], s.rest) ELSE Fail :
                            s \in {_ExprParser("unary", Tail(toks))}})
              ELSE _ExprParser("primary", toks)
         [] level = "primary" ->
              IF toks = <<>> THEN Fail
              ELSE IF toks[1] = Kw("(")
              THEN Only({IF i.ok /\ i.rest # <<>> /\ i.rest[1] = Kw(")")
                         THEN done(i.e, Tail(i.rest)) ELSE Fail :
                            i \in {_ExprParser("or", Tail(toks))}})
              ELSE IF toks[1].k = "id"
              THEN (IF Len(toks) >= 3 /\ toks[2] = Kw(".") /\ toks[3].k = "id"
                    THEN done([ref |-> [device |-> toks[1].v, path |-> toks[3].v]],
                              SubSeq(toks, 4, Len(toks)))
                    ELSE Fail)
              ELSE Only({IF p.ok THEN done([lit |-> p.lit], Tail(toks)) ELSE Fail :
                            p \in {_parse_literal(toks[1])}})

\* The while loops of _parse_or and _parse_and.
_ExprLoop(kw, args, rest) ==
    IF rest # <<>> /\ rest[1] = Kw(kw)
    THEN Only({IF r.ok THEN _ExprLoop(kw, Append(args, r.e), r.rest) ELSE Fail :
                  r \in {_ExprParser(IF kw = "or" THEN "and" ELSE "cmp", Tail(rest))}})
    ELSE [ok |-> TRUE,
          e |-> IF Len(args) = 1 THEN args[1] ELSE [op |-> kw, args |-> args],
          rest |-> rest]

\* _ExprTokenizer: the tokens the decoder reads in the characters of the
\* text.  A number text takes the digits its pattern matches and an identifier
\* the characters its pattern matches; what follows is read as further
\* tokens, "bad" for a character no pattern starts with.
_ExprTokenizer(toks) ==
    LET read(tok) ==
            IF tok = Tok("num", "1e+16")
            THEN <<Tok("num", "1"), Tok("id", "e"), Tok("bad", "+"), Tok("num", "16")>>
            ELSE IF tok = Tok("id", "light-hall")
            THEN <<Tok("id", "light"), Tok("bad", "-"), Tok("id", "hall")>>
            ELSE <<tok>>
    IN Join([i \in DOMAIN toks |-> read(toks[i])], <<>>)

\* _ExprParser(s).parse()
_parse_expr(toks) ==
    Only({IF r.ok /\ r.rest = <<>> THEN [ok |-> TRUE, e |-> r.e] ELSE Fail :
             r \in {_ExprParser("or", _ExprTokenizer(toks))}})

\* toks cut at every sep
RECURSIVE Split(_, _)
Split(toks, sep) ==
    LET at == {i \in DOMAIN toks : toks[i] = sep}
    IN IF at = {} THEN <<toks>>
       ELSE Only({<<SubSeq(toks, 1, i - 1)>> \o Split(SubSeq(toks, i + 1, Len(toks)), sep) :
                     i \in {SetMin(at)}})

_parse_trigger(toks) ==
    LET ids == toks[1].k = "id" /\ toks[3].k = "id"
    IN IF toks # <<>> /\ toks[1] = Kw("schedule")
       THEN (IF Len(toks) = 2 /\ Strip(toks[2].v) # ""
             THEN [ok |-> TRUE, tg |-> [type |-> "schedule", cron |-> Strip(toks[2].v)]]
             ELSE Fail)
       ELSE IF Len(toks) = 2 /\ toks[1] = Kw("after") /\ toks[2].k = "secs"
       THEN [ok |-> TRUE, tg |-> [type |-> "after", seconds |-> IntOf(toks[2].v)]]
       ELSE IF Len(toks) = 4 /\ ids /\ toks[2] = Kw(".") /\ toks[4] = Kw("changes")
       THEN [ok |-> TRUE,
             tg |-> [type |-> "changes", ref |-> [device |-> toks[1].v, path |-> toks[3].v]]]
       ELSE IF Len(toks) = 5 /\ ids /\ toks[2] = Kw(".") /\ toks[4] = Kw("becomes")
       THEN Only({IF p.ok
                  THEN [ok |-> TRUE,
                        tg |-> [type |-> "becomes",
                                ref |-> [device |-> toks[1].v, path |-> toks[3].v],
                                value |-> p.lit]]
                  ELSE Fail :
                     p \in {_parse_literal(toks[5])}})
       ELSE Fail

\* The encoder writes one literal after notify, so "rest" is one token here.
_parse_action(toks) ==
    LET isCall == Len(toks) >= 5 /\ toks[1].k = "id" /\ toks[2] = Kw(".")
                  /\ toks[3].k = "id" /\ toks[4] = Kw("(") /\ toks[Len(toks)] = Kw(")")
        arg_s == SubSeq(toks, 5, Len(toks) - 1)
        parts == IF arg_s = <<>> THEN <<>> ELSE Split(arg_s, Kw(","))
        lits == [i \in DOMAIN parts |->
                    IF Len(parts[i]) = 1 THEN _parse_literal(parts[i][1]) ELSE Fail]
        out == [type |-> "command", device |-> toks[1].v, command |-> toks[3].v]
    IN IF Len(toks) = 2 /\ toks[1] = Kw("delay") /\ toks[2].k = "secs"
       THEN [ok |-> TRUE, a |-> [type |-> "delay", seconds |-> IntOf(toks[2].v)]]
       ELSE IF Len(toks) = 2 /\ toks[1] = Kw("notify")
       THEN [ok |-> TRUE,
             a |-> [type |-> "notify",
                    message |-> IF toks[2].k = "str" THEN Unescape(toks[2].v) ELSE toks[2].v]]
       ELSE IF isCall
       THEN Only({IF \E i \in DOMAIN ls : ~ls[i].ok THEN Fail
                  ELSE [ok |-> TRUE,
                        a |-> IF ls = <<>> THEN out
                              ELSE Put(out, "args", [i \in DOMAIN ls |-> ls[i].lit])] :
                     ls \in {lits}})
       ELSE IF Len(toks) = 3 /\ toks[1].k = "id" /\ toks[2] = Kw(".") /\ toks[3].k = "id"
       THEN [ok |-> TRUE, a |-> out]
       ELSE Fail

Diagnostic(severity, code, path) == [severity |-> severity, code |-> code, path |-> path]

\* DecodeLabel giving up the rest of a label at its first part that adds a
\* diagnostic.
RECURSIVE DecodeLabel_stop(_, _, _)
DecodeLabel_stop(acc, parts, path) ==
    IF parts = <<>> THEN acc
    ELSE
    LET part == parts[1]
        body == Tail(part)
        err(code) == <<Diagnostic("error", code, path)>>
        chunks == SelectSeq(Split(body, Kw("AND")), LAMBDA c : c # <<>>)
        tgs == [i \in DOMAIN chunks |-> _parse_trigger(chunks[i])]
        okTgs(rs) == SelectSeq(rs, LAMBDA r : r.ok)
        step ==
            IF part # <<>> /\ part[1] = Kw("TRIGGER:")
            THEN Only({[acc EXCEPT
                          !.triggers = @ \o [i \in DOMAIN okTgs(rs) |-> okTgs(rs)[i].tg],
                          !.diags = @ \o Join([i \in DOMAIN rs |->
                                                  IF rs[i].ok THEN <<>> ELSE err("E410")], <<>>)] :
                          rs \in {tgs}})
            ELSE IF part # <<>> /\ part[1] = Kw("GUARD:")
            THEN Only({IF g.ok THEN Put(acc, "guard", g.e)
                       ELSE [acc EXCEPT !.diags = @ \o err("E420")] :
                          g \in {_parse_expr(body)}})
            ELSE IF part # <<>> /\ part[1] = Kw("ACTION:")
            THEN Only({IF a.ok THEN [acc EXCEPT !.actions = Append(@, a.a)]
                       ELSE [acc EXCEPT !.diags = @ \o err("E440")] :
                          a \in {_parse_action(body)}})
            ELSE [acc EXCEPT !.diags = Append(@, Diagnostic("warning", "W410", path))]
    IN Only({IF Len(n.diags) > Len(acc.diags) THEN n
             ELSE DecodeLabel_stop(n, Tail(parts), path) : n \in {step}})

\* parse_plantuml, the label of one transition: the parts in order, with the
\* triggers, the actions, the guard and the diagnostics collected so far in acc
RECURSIVE DecodeLabel(_, _, _)
DecodeLabel(acc, parts, path) ==
    IF parts = <<>> THEN acc
    ELSE
    LET part == parts[1]
        body == Tail(part)
        err(code) == <<Diagnostic("error", code, path)>>
        chunks == SelectSeq(Split(body, Kw("AND")), LAMBDA c : c # <<>>)
        tgs == [i \in DOMAIN chunks |-> _parse_trigger(chunks[i])]
        okTgs(rs) == SelectSeq(rs, LAMBDA r : r.ok)
        step ==
            IF part # <<>> /\ part[1] = Kw("TRIGGER:")
            THEN Only({[acc EXCEPT
                          !.triggers = @ \o [i \in DOMAIN okTgs(rs) |-> okTgs(rs)[i].tg],
                          !.diags = @ \o Join([i \in DOMAIN rs |->
                                                  IF rs[i].ok THEN <<>> ELSE err("E410")], <<>>)] :
                          rs \in {tgs}})
            ELSE IF part # <<>> /\ part[1] = Kw("GUARD:")
            THEN Only({IF g.ok THEN Put(acc, "guard", g.e)
                       ELSE [acc EXCEPT !.diags = @ \o err("E420")] :
                          g \in {_parse_expr(body)}})
            ELSE IF part # <<>> /\ part[1] = Kw("ACTION:")
            THEN Only({IF a.ok THEN [acc EXCEPT !.actions = Append(@, a.a)]
                       ELSE [acc EXCEPT !.diags = @ \o err("E440")] :
                          a \in {_parse_action(body)}})
            ELSE [acc EXCEPT !.diags = Append(@, Diagnostic("warning", "W410", path))]
    IN Only({DecodeLabel(n, Tail(parts), path) : n \in {step}})

\* parse_plantuml, the body of the loop over the lines: d holds the locals.
\* The encoder writes state names as identifiers, so the quoted and the
\* non-identifier endpoints of resolve_state are left out.
DecodeLine(d, line, idx) ==
    LET path == "puml:L" \o ToString(idx)
        labelled == Len(line) >= 5
        tr0 == [triggers |-> <<>>, actions |-> <<>>, diags |-> <<>>]
        tr_obj(acc) ==
            LET t == [from |-> line[1].v, to |-> line[3].v,
                      triggers |-> acc.triggers, actions |-> acc.actions]
            IN IF Has(acc, "guard") THEN Put(t, "guard", acc.guard) ELSE t
    IN IF line = <<>> \/ line[1] = Kw("'") THEN d
       ELSE IF d.in_note
       THEN (IF line = <<Kw("end note")>>
             THEN [d EXCEPT !.in_note = FALSE, !.note_state = None]
             ELSE IF d.note_state \notin {None, ""} /\ line[1] = Kw("-")
             THEN Only({IF e.ok
                        THEN [d EXCEPT !.invariants =
                                 Put(@, d.note_state, Append(Get(@, d.note_state, <<>>), e.e))]
                        ELSE [d EXCEPT !.diags = Append(@, Diagnostic("error", "E430", path))] :
                           e \in {_parse_expr(Tail(line))}})
             ELSE d)
       ELSE IF Len(line) = 4 /\ line[1] = Kw("state") /\ line[2].k = "str" /\ line[2].v # ""
               /\ line[3] = Kw("as") /\ line[4].k = "id"
       THEN [d EXCEPT !.state_labels = Put(@, line[4].v, line[2].v),
                      !.label_to_alias = Put(@, line[2].v, line[4].v),
                      !.states_seen = @ \cup {line[4].v}]
       ELSE IF Len(line) = 2 /\ line[1] = Kw("note right of") /\ line[2].k = "id"
       THEN [d EXCEPT !.in_note = TRUE, !.note_state = line[2].v]
       ELSE IF Len(line) = 3 /\ line[1] = Kw("[*]") /\ line[2] = Kw("-->")
       THEN [d EXCEPT !.initial_state = line[3].v, !.states_seen = @ \cup {line[3].v}]
       ELSE IF Len(line) >= 3 /\ line[1].k = "id" /\ line[2] = Kw("-->") /\ line[3].k = "id"
               /\ (Len(line) = 3 \/ (labelled /\ line[4] = Kw(":")))
       THEN Only({[d EXCEPT !.states_seen = @ \cup {line[1].v, line[3].v},
                            !.transitions_out = Append(@, tr_obj(acc)),
                            !.diags = @ \o acc.diags] :
                     acc \in {IF labelled
                              THEN DecodeLabel(tr0, Split(SubSeq(line, 5, Len(line)), Kw("\\n")),
                                               path)
                              ELSE [tr0 EXCEPT !.diags = <<Diagnostic("warning", "W400", path)>>]}})
       ELSE d

\* parse_plantuml before the loop: its locals, and idx the line it reads next
ParseStart ==
    [state_labels |-> <<>>, label_to_alias |-> <<>>, invariants |-> <<>>,
     initial_state |-> None, states_seen |-> {}, transitions_out |-> <<>>,
     diags |-> <<>>, in_note |-> FALSE, note_state |-> None, idx |-> 1]

\* ParseFinish falling back on the last of the sorted state ids.
ParseFinish_last(d) ==
    LET state(sid) ==
            LET lbl == Get(d.state_labels, sid, "")
                s1 == IF lbl # "" /\ lbl # sid THEN [id |-> sid, label |-> lbl] ELSE [id |-> sid]
            IN IF Get(d.invariants, sid, <<>>) # <<>>
               THEN Put(s1, "invariants", d.invariants[sid]) ELSE s1
        devicesOf(tr) ==
            {tg.ref.device : tg \in {x \in Range(tr.triggers) : Has(x, "ref")}}
            \cup {a.device : a \in {x \in Range(tr.actions) : x.type = "command"}}
        ids == sorted(d.states_seen)
        devs == sorted(UNION {devicesOf(tr) : tr \in Range(d.transitions_out)})
    IN [ir |-> [version |-> "0.1",
                devices |-> [i \in DOMAIN devs |-> [id |-> devs[i], kind |-> "unknown"]],
                stateMachine |->
                    [initial |-> IF d.initial_state # None THEN d.initial_state
                                 ELSE IF ids # <<>> THEN ids[Len(ids)] ELSE "Idle",
                     states |-> [i \in DOMAIN ids |-> state(ids[i])],
                     transitions |-> d.transitions_out]],
        diags |-> d.diags \o (IF d.initial_state = None
                              THEN <<Diagnostic("error", "E400", "puml:L1")>>
                              ELSE <<>>)]

\* (mutant) the target of the initial marker is not taken as a state
ParseFinish_unmarked(d) ==
    LET state(sid) ==
            LET lbl == Get(d.state_labels, sid, "")
                s1 == IF lbl # "" /\ lbl # sid THEN [id |-> sid, label |-> lbl] ELSE [id |-> sid]
            IN IF Get(d.invariants, sid, <<>>) # <<>>
               THEN Put(s1, "invariants", d.invariants[sid]) ELSE s1
        devicesOf(tr) ==
            {tg.ref.device : tg \in {x \in Range(tr.triggers) : Has(x, "ref")}}
            \cup {a.device : a \in {x \in Range(tr.actions) : x.type = "command"}}
        ids == sorted(d.states_seen \ {d.initial_state})
        devs == sorted(UNION {devicesOf(tr) : tr \in Range(d.transitions_out)})
    IN [ir |-> [version |-> "0.1",
                devices |-> [i \in DOMAIN devs |-> [id |-> devs[i], kind |-> "unknown"]],
                stateMachine |->
                    [initial |-> IF d.initial_state # None THEN d.initial_state
                                 ELSE IF ids # <<>> THEN ids[1] ELSE "Idle",
                     states |-> [i \in DOMAIN ids |-> state(ids[i])],
                     transitions |-> d.transitions_out]],
        diags |-> d.diags \o (IF d.initial_state = None
                              THEN <<Diagnostic("error", "E400", "puml:L1")>>
                              ELSE <<>>)]

\* parse_plantuml after the loop: the IR read from the text and the
\* diagnostics of the reading
ParseFinish(d) ==
    LET state(sid) ==
            LET lbl == Get(d.state_labels, sid, "")
                s1 == IF lbl # "" /\ lbl # sid THEN [id |-> sid, label |-> lbl] ELSE [id |-> sid]
            IN IF Get(d.invariants, sid, <<>>) # <<>>
               THEN Put(s1, "invariants", d.invariants[sid]) ELSE s1
        devicesOf(tr) ==
            {tg.ref.device : tg \in {x \in Range(tr.triggers) : Has(x, "ref")}}
            \cup {a.device : a \in {x \in Range(tr.actions) : x.type = "command"}}
        ids == sorted(d.states_seen)
        devs == sorted(UNION {devicesOf(tr) : tr \in Range(d.transitions_out)})
    IN [ir |-> [version |-> "0.1",
                devices |-> [i \in DOMAIN devs |-> [id |-> devs[i], kind |-> "unknown"]],
                stateMachine |->
                    [initial |-> IF d.initial_state # None THEN d.initial_state
                                 ELSE IF ids # <<>> THEN ids[1] ELSE "Idle",
                     states |-> [i \in DOMAIN ids |-> state(ids[i])],
                     transitions |-> d.transitions_out]],
        diags |-> d.diags \o (IF d.initial_state = None
                              THEN <<Diagnostic("error", "E400", "puml:L1")>>
                              ELSE <<>>)]

\* ---------------------------------------------------------------- validator
\* A capability catalog holds, per kind, its attributes and the names of its
\* commands, and the value sets of the enum attributes.

\* $.stateMachine.transitions[i]<tail>, counting from 0 as the code does
TrPath(i, tail) == "$.stateMachine.transitions[" \o ToString(i - 1) \o "]" \o tail

\* Phase one, conformance to the IR schema: the required fields of states and
\* transitions and the enumerations of the trigger and action types, one
\* E100 for every violation.
validate_json_schema(ir) ==
    LET sm == ir.stateMachine
        e100(path) == <<Diagnostic("error", "E100", path)>>
        elems(i, what, seq, types) ==
            Join([j \in DOMAIN seq |->
                     IF Get(seq[j], "type", None) \in types THEN <<>>
                     ELSE e100(TrPath(i, "." \o what \o "[" \o ToString(j - 1) \o "]"))], <<>>)
        ofState(i) == IF Has(sm.states[i], "id") THEN <<>>
                      ELSE e100("$.stateMachine.states[" \o ToString(i - 1) \o "]")
        ofTr(i) ==
            LET tr == sm.transitions[i]
            IN (IF {"from", "to", "triggers", "actions"} \subseteq DOMAIN tr
                THEN <<>> ELSE e100(TrPath(i, "")))
               \o elems(i, "triggers", Get(tr, "triggers", <<>>),
                        {"becomes", "changes", "schedule", "after"})
               \o elems(i, "actions", Get(tr, "actions", <<>>), {"command", "delay", "notify"})
    IN Join([i \in DOMAIN sm.states |-> ofState(i)], <<>>)
       \o Join([i \in DOMAIN sm.transitions |-> ofTr(i)], <<>>)

\* The diagnostics ensure_device_exists adds: an E110 that suggests every known
\* device id when the device is in neither list of the catalog.
ensure_device_exists(device_id, path, device_catalog) ==
    LET known == {d.id : d \in Range(device_catalog.devices \o device_catalog.globals)}
    IN IF device_id \in known THEN <<>>
       ELSE <<Put(Diagnostic("error", "E110", path), "suggestions", sorted(known))>>

\* check_ref_only, and check_ref_and_value when a literal comes with the
\* reference (withLit)
check_ref(device_id, attr, withLit, lit, path, device_catalog, capability_catalog) ==
    LET kind == id_to_kind(device_catalog, device_id)
        err(code) == <<Diagnostic("error", code, path)>>
        kinds == capability_catalog.kinds
        attr_spec == kinds[kind].attributes[attr]
        isEnum == attr_spec.type = "enum" /\ Has(attr_spec, "valuesFrom")
                  /\ Has(capability_catalog.valueSets, attr_spec.valuesFrom)
    IN IF kind = None THEN ensure_device_exists(device_id, path, device_catalog)
       ELSE IF ~Has(kinds, kind) THEN err("E205")
       ELSE IF ~Has(kinds[kind].attributes, attr) THEN err("E200")
       ELSE IF withLit /\ isEnum
       THEN (IF ~Has(lit, "string") THEN err("E210")
             ELSE IF lit.string \notin capability_catalog.valueSets[attr_spec.valuesFrom]
             THEN err("E220") ELSE <<>>)
       ELSE <<>>

check_command(device_id, cmd, path, device_catalog, capability_catalog) ==
    LET kind == id_to_kind(device_catalog, device_id)
        kinds == capability_catalog.kinds
    IN IF kind = None THEN ensure_device_exists(device_id, path, device_catalog)
       ELSE IF ~Has(kinds, kind) THEN <<>>
       ELSE IF cmd \notin kinds[kind].commands THEN <<Diagnostic("error", "E300", path)>>
       ELSE <<>>

\* validate_semantics, walk_expr: the diagnostics of one guard expression
RECURSIVE validate_walk_expr(_, _, _, _)
validate_walk_expr(expr, base_path, device_catalog, capability_catalog) ==
    LET chk(ref, withLit, lit) ==
            check_ref(ref.device, ref.path, withLit, lit, base_path,
                      device_catalog, capability_catalog)
        ofRef == IF Has(expr, "ref") THEN chk(expr.ref, FALSE, <<>>) ELSE <<>>
        op == expr.op
        args == expr.args
        arity == IF \/ op = "not" /\ Len(args) # 1
                    \/ op \in {"eq", "neq", "lt", "lte", "gt", "gte"} /\ Len(args) # 2
                    \/ op \in {"and", "or"} /\ Len(args) < 2
                 THEN <<Diagnostic("error", "E400", base_path)>> ELSE <<>>
        ofArgs == Join([k \in DOMAIN args |->
                           validate_walk_expr(args[k],
                               base_path \o ".args[" \o ToString(k - 1) \o "]",
                               device_catalog, capability_catalog)], <<>>)
        enum == IF op \in {"eq", "neq"} /\ Len(args) = 2
                THEN (IF Has(args[1], "ref") /\ Has(args[2], "lit")
                      THEN chk(args[1].ref, TRUE, args[2].lit)
                      ELSE IF Has(args[2], "ref") /\ Has(args[1], "lit")
                      THEN chk(args[2].ref, TRUE, args[1].lit)
                      ELSE <<>>)
                ELSE <<>>
    IN IF Has(expr, "lit") THEN ofRef
       ELSE IF Has(expr, "op") /\ Has(expr, "args") THEN ofRef \o arity \o ofArgs \o enum
       ELSE ofRef

\* The states the depth-first walk visits from the states in seen.
RECURSIVE Reach(_, _)
Reach(seen, edges) ==
    LET more == {e[2] : e \in {x \in edges : x[1] \in seen}} \ seen
    IN IF more = {} THEN seen ELSE Reach(seen \cup more, edges)

validate_semantics(ir, device_catalog, capability_catalog) ==
    LET sm == ir.stateMachine
        state_ids == {s.id : s \in {x \in Range(sm.states) : Has(x, "id")}}
        unknown(s, path) == IF s \notin state_ids THEN <<Diagnostic("error", "E111", path)>>
                            ELSE <<>>
        ofTrigger(tg, path) ==
            IF Get(tg, "type", None) = "becomes" /\ Has(tg, "ref") /\ Has(tg, "value")
            THEN check_ref(tg.ref.device, tg.ref.path, TRUE, tg.value, path,
                           device_catalog, capability_catalog)
            ELSE IF Get(tg, "type", None) = "changes" /\ Has(tg, "ref")
            THEN check_ref(tg.ref.device, tg.ref.path, FALSE, <<>>, path,
                           device_catalog, capability_catalog)
            ELSE <<>>
        ofAction(a, path) ==
            IF Get(a, "type", None) = "command"
            THEN check_command(a.device, a.command, path, device_catalog, capability_catalog)
            ELSE <<>>
        cmdsOf(tr, dev) == {a.command : a \in {x \in Range(tr.actions) :
                               Get(x, "type", None) = "command" /\ x.device = dev}}
        devsOf(tr) == {a.device : a \in {x \in Range(tr.actions) :
                          Get(x, "type", None) = "command"}}
        \* one E530 for every device and contradicting pair
        conflicts(tr, path) ==
            Join([i \in DOMAIN sorted(devsOf(tr)) |->
                     (IF {"on", "off"} \subseteq cmdsOf(tr, sorted(devsOf(tr))[i])
                      THEN <<Diagnostic("error", "E530", path)>> ELSE <<>>)
                     \o (IF {"lock", "unlock"} \subseteq cmdsOf(tr, sorted(devsOf(tr))[i])
                         THEN <<Diagnostic("error", "E530", path)>> ELSE <<>>)], <<>>)
        ofTr(i) ==
            LET tr == sm.transitions[i]
            IN unknown(tr.from, TrPath(i, ".from"))
               \o unknown(tr.to, TrPath(i, ".to"))
               \o Join([j \in DOMAIN tr.triggers |->
                           ofTrigger(tr.triggers[j],
                                     TrPath(i, ".triggers[" \o ToString(j - 1) \o "]"))], <<>>)
               \o (IF Has(tr, "guard")
                   THEN validate_walk_expr(tr.guard, TrPath(i, ".guard"),
                                           device_catalog, capability_catalog)
                   ELSE <<>>)
               \o Join([j \in DOMAIN tr.actions |->
                           ofAction(tr.actions[j],
                                    TrPath(i, ".actions[" \o ToString(j - 1) \o "]"))], <<>>)
               \o conflicts(tr, TrPath(i, ".actions"))
        edges == {<<tr.from, tr.to>> : tr \in {x \in Range(sm.transitions) : x.from \in state_ids}}
        visited == Reach({sm.initial}, edges)
        unreachable == IF sm.initial \in state_ids
                       THEN SelectSeq(sorted(state_ids), LAMBDA sid : sid \notin visited)
                       ELSE <<>>
    IN unknown(sm.initial, "$.stateMachine.initial")
       \o Join([i \in DOMAIN sm.transitions |-> ofTr(i)], <<>>)
       \o [i \in DOMAIN unreachable |-> Diagnostic("warning", "W500", "$.stateMachine.states")]

\* (mutant) the semantic phase runs whatever the structural phase found
validate_all_no_gate(ir, device_catalog, capability_catalog) ==
    validate_json_schema(ir) \o validate_semantics(ir, device_catalog, capability_catalog)

validate_all(ir, device_catalog, capability_catalog) ==
    Only({IF \E i \in DOMAIN diags : diags[i].severity = "error" THEN diags
          ELSE diags \o validate_semantics(ir, device_catalog, capability_catalog) :
             diags \in {validate_json_schema(ir)}})

\* ------------------------------------------------------------------ diff
\* transitions_added and transitions_removed are kept as the sets the code
\* builds; the order it lists them in (by their JSON text) is left out.
\* (mutant) transitions are compared as they are written
_simple_ir_diff_raw(baseline, edited) ==
    LET norm_state(s) == IF Get(s, "label", "") # "" THEN s.id \o "|" \o s.label ELSE s.id
        states(ir) == {norm_state(s) : s \in Range(ir.stateMachine.states)}
        trans(ir) == Range(ir.stateMachine.transitions)
    IN [initial |-> [baseline |-> baseline.stateMachine.initial,
                     edited |-> edited.stateMachine.initial],
        states_added |-> sorted(states(edited) \ states(baseline)),
        states_removed |-> sorted(states(baseline) \ states(edited)),
        transitions_added |-> trans(edited) \ trans(baseline),
        transitions_removed |-> trans(baseline) \ trans(edited)]

\* (mutant) transitions are compared place by place
_simple_ir_diff_listwise(baseline, edited) ==
    LET norm_state(s) == IF Get(s, "label", "") # "" THEN s.id \o "|" \o s.label ELSE s.id
        strip_args(a) == IF Get(a, "type", None) = "command" /\ Has(a, "args") /\ a.args = <<>>
                         THEN Drop(a, "args") ELSE a
        _strip_noise(tr) ==
            Only({IF Has(t, "actions")
                  THEN [t EXCEPT !.actions = [i \in DOMAIN @ |-> strip_args(@[i])]] ELSE t :
                     t \in {Drop(tr, "id")}})
        states(ir) == {norm_state(s) : s \in Range(ir.stateMachine.states)}
        trans(ir) == {[at |-> i, tr |-> _strip_noise(ir.stateMachine.transitions[i])] :
                         i \in DOMAIN ir.stateMachine.transitions}
    IN [initial |-> [baseline |-> baseline.stateMachine.initial,
                     edited |-> edited.stateMachine.initial],
        states_added |-> sorted(states(edited) \ states(baseline)),
        states_removed |-> sorted(states(baseline) \ states(edited)),
        transitions_added |-> {x.tr : x \in trans(edited) \ trans(baseline)},
        transitions_removed |-> {x.tr : x \in trans(baseline) \ trans(edited)}]

_simple_ir_diff(baseline, edited) ==
    LET norm_state(s) == IF Get(s, "label", "") # "" THEN s.id \o "|" \o s.label ELSE s.id
        strip_args(a) == IF Get(a, "type", None) = "command" /\ Has(a, "args") /\ a.args = <<>>
                         THEN Drop(a, "args") ELSE a
        _strip_noise(tr) ==
            Only({IF Has(t, "actions")
                  THEN [t EXCEPT !.actions = [i \in DOMAIN @ |-> strip_args(@[i])]] ELSE t :
                     t \in {Drop(tr, "id")}})
        states(ir) == {norm_state(s) : s \in Range(ir.stateMachine.states)}
        trans(ir) == {_strip_noise(t) : t \in Range(ir.stateMachine.transitions)}
    IN [initial |-> [baseline |-> baseline.stateMachine.initial,
                     edited |-> edited.stateMachine.initial],
        states_added |-> sorted(states(edited) \ states(baseline)),
        states_removed |-> sorted(states(baseline) \ states(edited)),
        transitions_added |-> trans(edited) \ trans(baseline),
        transitions_removed |-> trans(baseline) \ trans(edited)]

\* ------------------------------------------------ round trip: specification

RtCatalog ==
    [devices |-> <<[id |-> "light_hall", kind |-> "switch"]>>,
     globals |-> <<[id |-> "motion_hall", kind |-> "motionSensor"]>>]

RtCapabilities ==
    [kinds |->
        [switch |-> [attributes |-> [switch |-> [type |-> "enum", valuesFrom |-> "onOff"],
                                     level |-> [type |-> "number"]],
                     commands |-> {"on", "off", "setLevel"}],
         motionSensor |-> [attributes |-> [motion |-> [type |-> "enum",
                                                       valuesFrom |-> "activeInactive"]],
                           commands |-> {}]],
     valueSets |-> [onOff |-> {"on", "off"}, activeInactive |-> {"active", "inactive"}]]

\* The state lists of the sample documents: plain, with a label equal to the
\* id, with labels of their own, with an invariant, with an unreachable state.
RtStates ==
    {<<[id |-> "Idle"], [id |-> "Lit"]>>,
     <<[id |-> "Idle", label |-> "Idle"], [id |-> "Lit"]>>,
     <<[id |-> "Idle", label |-> "Resting"], [id |-> "Lit"]>>,
     <<[id |-> "Idle", label |-> "Say \"hi\""], [id |-> "Lit"]>>,
     <<[id |-> "Idle"], [id |-> "Lit", invariants |-> <<guardMotion>>]>>,
     <<[id |-> "Idle"], [id |-> "Lit"], [id |-> "Off"]>>}

RtTriggers ==
    {trigBecomes, trigChanges,
     [type |-> "schedule", cron |-> "0 7 * * *"],
     [type |-> "after", seconds |-> 30],
     [type |-> "sunrise"]}

\* No guard, a comparison, and a nested expression.
RtGuards ==
    {<<>>, <<guardMotion>>,
     <<[op |-> "and",
        args |-> <<[op |-> "not", args |-> <<guardMotion>>],
                   [op |-> "gte",
                    args |-> <<[ref |-> [device |-> "light_hall", path |-> "level"]],
                               [lit |-> [number |-> 50]]>>]>>]>>}

RtActions ==
    {cmdOn,
     [type |-> "command", device |-> "light_hall", command |-> "off", args |-> <<>>],
     [type |-> "command", device |-> "light_hall", command |-> "setLevel",
      args |-> <<[number |-> 50]>>],
     [type |-> "notify", message |-> "Say \"hi\""],
     delay5}

\* The transition back: with an id, a timer and a command, or with nothing.
RtReturn ==
    {[id |-> "t2", from |-> "Lit", to |-> "Idle",
      triggers |-> <<[type |-> "after", seconds |-> 5]>>, actions |-> <<cmdOff>>],
     [from |-> "Lit", to |-> "Idle", triggers |-> <<>>, actions |-> <<>>]}

RtDocument(states, trigger, guard, actions, back) ==
    LET tr == [from |-> "Idle", to |-> "Lit", triggers |-> <<trigger>>, actions |-> actions]
    IN [version |-> "0.1",
        devices |-> <<[id |-> "light_hall", kind |-> "switch"],
                      [id |-> "motion_hall", kind |-> "motionSensor"]>>,
        stateMachine |->
            [initial |-> "Idle",
             states |-> states,
             transitions |-> <<IF guard = <<>> THEN tr ELSE Put(tr, "guard", guard[1]), back>>]]

RoundTripInit ==
    /\ \E states \in RtStates, trigger \in RtTriggers, guard \in RtGuards,
          actions \in SeqsUpTo(RtActions, 2), back \in RtReturn :
            r_orig = RtDocument(states, trigger, guard, actions, back)
    /\ r_text = <<>>
    /\ r_dec = NoIR
    /\ r_ir = NoIR
    /\ r_diags = <<>>
    /\ r_diff = NoIR
    /\ r_pc = "encode"
    /\ e_bundle = Idle /\ e_before = Idle /\ e_args = Idle /\ e_parent = Idle
    /\ e_patch = Idle /\ e_ir = Idle /\ e_report = Idle /\ e_repairs = Idle
    /\ e_log = Idle /\ e_runs = Idle /\ e_pc = Idle
    /\ d_ir = Idle /\ d_in = Idle /\ d_synth = Idle /\ d_pass = Idle
    /\ p_parent = Idle /\ p_parent0 = Idle /\ p_ir = Idle /\ p_shared = Idle
    /\ p_pc = Idle /\ p_n = Idle /\ p_prev = Idle /\ p_last = Idle
    /\ p_result = Idle
    /\ n_cat = Idle /\ n_ir = Idle /\ n_prev = Idle /\ n_pass = Idle
    /\ v_dir = Idle /\ v_ir = Idle /\ v_devs = Idle /\ v_caps = Idle
    /\ v_diags = Idle /\ v_stages = Idle /\ v_pc = Idle

\* ir_to_plantuml writes the original IR as text; parse_plantuml starts on it.
Encode ==
    /\ r_pc = "encode"
    /\ r_text' = ir_to_plantuml(r_orig, "Automation")
    /\ r_dec' = ParseStart
    /\ r_pc' = "decode"
    /\ UNCHANGED <<r_orig, r_ir, r_diags, r_diff>>
    /\ UNCHANGED roundtripOthers

\* parse_plantuml: one turn of the loop over the lines.
DecodeStep ==
    /\ r_pc = "decode"
    /\ r_dec.idx <= Len(r_text)
    /\ r_dec' = [DecodeLine(r_dec, r_text[r_dec.idx], r_dec.idx) EXCEPT !.idx = @ + 1]
    /\ UNCHANGED <<r_orig, r_text, r_ir, r_diags, r_diff, r_pc>>
    /\ UNCHANGED roundtripOthers

\* parse_plantuml returns; run_roundtrip fills the device kinds from the catalog.
Decode ==
    /\ r_pc = "decode"
    /\ r_dec.idx > Len(r_text)
    /\ \E p \in {ParseFinish(r_dec)} :
          /\ r_ir' = [p.ir EXCEPT !.devices =
                         [i \in DOMAIN @ |->
                             Only({[@[i] EXCEPT !.kind = IF k = None THEN @ ELSE k] :
                                      k \in {id_to_kind(RtCatalog, @[i].id)}})]]
          /\ r_diags' = p.diags
    /\ r_pc' = "normalize"
    /\ UNCHANGED <<r_orig, r_text, r_dec, r_diff>>
    /\ UNCHANGED roundtripOthers

Normalize ==
    /\ r_pc = "normalize"
    /\ r_ir' = normalize_ir(r_ir)
    /\ r_pc' = "desugar"
    /\ UNCHANGED <<r_orig, r_text, r_dec, r_diags, r_diff>>
    /\ UNCHANGED roundtripOthers

Desugar ==
    /\ r_pc = "desugar"
    /\ r_ir' = desugar_delays_to_timer_states(r_ir)
    /\ r_pc' = "validate"
    /\ UNCHANGED <<r_orig, r_text, r_dec, r_diags, r_diff>>
    /\ UNCHANGED roundtripOthers

\* diags_all = parse_diags + diags
Validate ==
    /\ r_pc = "validate"
    /\ r_diags' = r_diags \o validate_all(r_ir, RtCatalog, RtCapabilities)
    /\ r_pc' = "diff"
    /\ UNCHANGED <<r_orig, r_text, r_dec, r_ir, r_diff>>
    /\ UNCHANGED roundtripOthers

Diff ==
    /\ r_pc = "diff"
    /\ r_diff' = _simple_ir_diff(r_orig, r_ir)
    /\ r_pc' = "done"
    /\ UNCHANGED <<r_orig, r_text, r_dec, r_ir, r_diags>>
    /\ UNCHANGED roundtripOthers

RoundTripNext == Encode \/ DecodeStep \/ Decode \/ Normalize \/ Desugar \/ Validate \/ Diff

SpecRoundTrip == RoundTripInit /\ [][RoundTripNext]_vars

\* An IR the pipeline leaves as it is: a fixed point of coerce_ir_shape,
\* normalize_ir and desugar_delays_to_timer_states.
Canonical(ir) ==
    /\ coerce_ir_shape(ir, RtCatalog) = ir
    /\ normalize_ir(ir) = ir
    /\ desugar_delays_to_timer_states(ir) = ir

\* C1: round trip: for a canonical IR that validate_all passes without any
\* diagnostic, encoding with ir_to_plantuml, decoding with parse_plantuml and
\* running normalize_ir, desugar_delays_to_timer_states and validate_all again
\* gives no diagnostic (neither error nor warning, from decoder or validator)
\* and an IR whose _simple_ir_diff against the original has the same initial
\* state and no added or removed states or transitions.
C1_RoundTrip ==
    (r_pc = "done" /\ Canonical(r_orig)
        /\ validate_all(r_orig, RtCatalog, RtCapabilities) = <<>>)
    => /\ r_diags = <<>>
       /\ r_diff.initial.baseline = r_diff.initial.edited
       /\ r_diff.states_added = <<>>
       /\ r_diff.states_removed = <<>>
       /\ r_diff.transitions_added = {}
       /\ r_diff.transitions_removed = {}

\* ------------------------------------------------- validator: specification

\* The device catalog of the validator runs: two devices and a global.
ValDevices ==
    [devices |-> <<[id |-> "light_hall", kind |-> "switch"],
                   [id |-> "siren1", kind |-> "alarm"]>>,
     globals |-> <<[id |-> "motion_hall", kind |-> "motionSensor"]>>]

\* The capability catalogs: without and with an entry for the kind alarm.
ValCapabilities ==
    {RtCapabilities,
     [RtCapabilities EXCEPT !.kinds =
         [switch |-> @.switch, motionSensor |-> @.motionSensor,
          alarm |-> [attributes |-> [alarm |-> [type |-> "enum", valuesFrom |-> "onOff"]],
                     commands |-> {"siren", "off"}]]]}

\* State lists: all reachable, with one and with two states nothing leads to,
\* and with an entry that has no id.
ValStates ==
    {<<[id |-> "Idle"], [id |-> "Lit"]>>,
     <<[id |-> "Idle"], [id |-> "Lit"], [id |-> "Off"]>>,
     <<[id |-> "Idle"], [id |-> "Lit"], [id |-> "Off"], [id |-> "A"]>>,
     <<[id |-> "Idle"], [id |-> "Lit"], [label |-> "Resting"]>>}

\* Transitions besides Idle -> Lit -> Idle: none, one between two further
\* states, and a path to Off through B, which no state list declares.
ValLinks ==
    {<<>>,
     <<[from |-> "Off", to |-> "A", triggers |-> <<>>, actions |-> <<>>]>>,
     <<[from |-> "Lit", to |-> "B", triggers |-> <<>>, actions |-> <<>>],
       [from |-> "B", to |-> "Off", triggers |-> <<>>, actions |-> <<>>]>>}

\* Triggers: sound, on a device the catalog does not have, on a device of the
\* kind alarm, with a value outside the enum, of a type the schema does not
\* have, and a timer.
ValTriggers ==
    {trigBecomes,
     [type |-> "becomes", ref |-> [device |-> "lite_hall", path |-> "switch"],
      value |-> [string |-> "on"]],
     [type |-> "changes", ref |-> [device |-> "siren1", path |-> "alarm"]],
     [type |-> "becomes", ref |-> [device |-> "motion_hall", path |-> "motion"],
      value |-> [string |-> "maybe"]],
     [type |-> "sunrise"],
     [type |-> "after", seconds |-> 30]}

\* Guards: none, sound, comparisons with a literal and with a number on a
\* device the catalog does not have, and a comparison on the alarm.
ValGuards ==
    {<<>>, <<guardMotion>>,
     <<[op |-> "eq", args |-> <<[ref |-> [device |-> "lite_hall", path |-> "switch"]],
                                [lit |-> [string |-> "on"]]>>]>>,
     <<[op |-> "gte", args |-> <<[ref |-> [device |-> "lite_hall", path |-> "level"]],
                                 [lit |-> [number |-> 50]]>>]>>,
     <<[op |-> "not",
        args |-> <<[op |-> "eq", args |-> <<[ref |-> [device |-> "siren1", path |-> "alarm"]],
                                            [lit |-> [string |-> "on"]]>>]>>]>>}

ValActions ==
    {<<>>, <<cmdOn>>, <<cmdOn, cmdOff>>,
     <<[type |-> "command", device |-> "lite_hall", command |-> "on"]>>,
     <<[type |-> "command", device |-> "siren1", command |-> "siren"]>>,
     <<[type |-> "command", device |-> "light_hall", command |-> "blink"]>>,
     <<[type |-> "wait"]>>}

ValDocument(states, initial, trigger, guard, actions, links) ==
    LET tr == [from |-> "Idle", to |-> "Lit", triggers |-> <<trigger>>, actions |-> actions]
    IN [version |-> "0.1",
        devices |-> ValDevices.devices,
        stateMachine |->
            [initial |-> initial,
             states |-> states,
             transitions |->
                 <<IF guard = <<>> THEN tr ELSE Put(tr, "guard", guard[1]),
                   [from |-> "Lit", to |-> "Idle", triggers |-> <<>>, actions |-> <<>>]>>
                 \o links]]

ValidateInit ==
    /\ \E states \in ValStates, initial \in {"Idle", "Off"}, trigger \in ValTriggers,
          guard \in ValGuards, actions \in ValActions, links \in ValLinks :
            v_ir = ValDocument(states, initial, trigger, guard, actions, links)
    /\ v_devs = ValDevices
    /\ v_caps \in ValCapabilities
    /\ v_diags = <<>>
    /\ v_stages = <<>>
    /\ v_dir = "validate_all"
    /\ v_pc = "validate"
    /\ e_bundle = Idle /\ e_before = Idle /\ e_args = Idle /\ e_parent = Idle
    /\ e_patch = Idle /\ e_ir = Idle /\ e_report = Idle /\ e_repairs = Idle
    /\ e_log = Idle /\ e_runs = Idle /\ e_pc = Idle
    /\ d_ir = Idle /\ d_in = Idle /\ d_synth = Idle /\ d_pass = Idle
    /\ p_parent = Idle /\ p_parent0 = Idle /\ p_ir = Idle /\ p_shared = Idle
    /\ p_pc = Idle /\ p_n = Idle /\ p_prev = Idle /\ p_last = Idle
    /\ p_result = Idle
    /\ n_cat = Idle /\ n_ir = Idle /\ n_prev = Idle /\ n_pass = Idle
    /\ r_orig = Idle /\ r_text = Idle /\ r_ir = Idle /\ r_diags = Idle
    /\ r_diff = Idle /\ r_pc = Idle /\ r_dec = Idle

\* diags, patches = validate_all(ir, ir_schema, device_catalog, capability_catalog);
\* no code path adds a patch, so patches is always the empty list.
ValidateAll ==
    /\ v_pc = "validate"
    /\ v_diags' = validate_all(v_ir, v_devs, v_caps)
    /\ v_stages' = Append(v_stages, "validate_all")
    /\ v_pc' = "done"
    /\ UNCHANGED <<v_dir, v_ir, v_devs, v_caps>>
    /\ UNCHANGED pipelineOthers

ValidateNext == ValidateAll

SpecValidate == ValidateInit /\ [][ValidateNext]_vars

\* ------------------------------------------------------- validator: claims

\* The number of diagnostics with one of these codes.
CountCodes(diags, codes) == Cardinality({i \in DOMAIN diags : diags[i].code \in codes})

\* "ok": no diagnostic has severity error
Ok(diags) == \A i \in DOMAIN diags : diags[i].severity # "error"

SemanticCodes ==
    {"E110", "E111", "E200", "E205", "E210", "E220", "E300", "E400", "E530", "W500"}

\* The IR passes the structural phase.
SchemaValid(ir) == validate_json_schema(ir) = <<>>

\* C13: when the structural phase finds an error, validate_all returns the
\* E100 diagnostics and nothing else; a diagnostic of the semantic phase is
\* in the result only when the structural phase found nothing.
C13_FailFastBetweenPhases ==
    v_pc = "done" =>
        /\ ~SchemaValid(v_ir) =>
              /\ v_diags = validate_json_schema(v_ir)
              /\ \A i \in DOMAIN v_diags : v_diags[i].code = "E100"
        /\ CountCodes(v_diags, SemanticCodes) > 0 => SchemaValid(v_ir)
        /\ SchemaValid(v_ir) => v_diags = validate_semantics(v_ir, v_devs, v_caps)

\* C13 witness: a document with a trigger type the schema does not have and
\* an initial state that is not declared got E100 and no E111.
C13_Witness ==
    /\ v_pc = "done"
    /\ v_diags # <<>>
    /\ \A i \in DOMAIN v_diags : v_diags[i].code = "E100"
    /\ CountCodes(validate_semantics(v_ir, v_devs, v_caps), {"E111"}) > 0

\* The device ids of the catalog.
KnownDeviceIds(device_catalog) ==
    {d.id : d \in Range(device_catalog.devices \o device_catalog.globals)}

\* The references to devices inside an expression, each with the path of its
\* node: [device, at].
RECURSIVE GuardRefs(_, _)
GuardRefs(expr, base_path) ==
    IF Has(expr, "ref") THEN <<[device |-> expr.ref.device, at |-> base_path]>>
    ELSE IF Has(expr, "args")
    THEN Join([k \in DOMAIN expr.args |->
                  GuardRefs(expr.args[k], base_path \o ".args[" \o ToString(k - 1) \o "]")],
              <<>>)
    ELSE <<>>

\* The places of an IR that reference a device: the refs of its triggers, the
\* refs inside its guards and the devices of its command actions.
DevicePlaces(ir) ==
    LET trs == ir.stateMachine.transitions
        ofTr(i) ==
            Join([j \in DOMAIN trs[i].triggers |->
                     IF Has(trs[i].triggers[j], "ref")
                     THEN <<[device |-> trs[i].triggers[j].ref.device,
                             at |-> TrPath(i, ".triggers[" \o ToString(j - 1) \o "]")]>>
                     ELSE <<>>], <<>>)
            \o (IF Has(trs[i], "guard") THEN GuardRefs(trs[i].guard, TrPath(i, ".guard"))
                ELSE <<>>)
            \o Join([j \in DOMAIN trs[i].actions |->
                        IF trs[i].actions[j].type = "command"
                        THEN <<[device |-> trs[i].actions[j].device,
                                at |-> TrPath(i, ".actions[" \o ToString(j - 1) \o "]")]>>
                        ELSE <<>>], <<>>)
    IN Join([i \in DOMAIN trs |-> ofTr(i)], <<>>)

\* C14: for a schema-valid IR with exactly one place that references a device
\* id the catalog does not have, validation gives exactly one E110, and that
\* E110 suggests all known device ids.
C14_OneE110PerUnknownDevice ==
    (v_pc = "done" /\ SchemaValid(v_ir)
        /\ Len(SelectSeq(DevicePlaces(v_ir),
                         LAMBDA pl : pl.device \notin KnownDeviceIds(v_devs))) = 1)
    => /\ CountCodes(v_diags, {"E110"}) = 1
       /\ \A i \in DOMAIN v_diags :
             v_diags[i].code = "E110" =>
                 v_diags[i].suggestions = sorted(KnownDeviceIds(v_devs))

\* C15: for a schema-valid IR, every trigger ref, guard ref and command action
\* on a catalogued device whose kind has no entry in the capability catalog
\* gets an E205 error at the path of the reference, and
\* the result is not ok.
C15_E205ForKindWithoutEntry ==
    (v_pc = "done" /\ SchemaValid(v_ir)) =>
        \A k \in DOMAIN DevicePlaces(v_ir) :
            LET pl == DevicePlaces(v_ir)[k]
            IN (pl.device \in KnownDeviceIds(v_devs)
                  /\ ~Has(v_caps.kinds, id_to_kind(v_devs, pl.device)))
               => /\ \E i \in DOMAIN v_diags :
                        v_diags[i].code = "E205" /\ v_diags[i].path = pl.at
                  /\ ~Ok(v_diags)

\* C16: for a schema-valid IR whose initial state is declared, validation
\* gives one W500 for each declared state that no chain of transitions
\* from -> to leads to from initial, and no other W500; every W500 is a
\* warning.
C16_UnreachableStates ==
    (v_pc = "done" /\ SchemaValid(v_ir)
        /\ v_ir.stateMachine.initial \in StateIdsOf(v_ir.stateMachine.states))
    => LET sm == v_ir.stateMachine
           reached == Reach({sm.initial}, {<<tr.from, tr.to>> : tr \in Range(sm.transitions)})
       IN /\ CountCodes(v_diags, {"W500"})
                = Cardinality(StateIdsOf(sm.states) \ reached)
          /\ \A i \in DOMAIN v_diags :
                v_diags[i].code = "W500" => v_diags[i].severity = "warning"

\* ------------------------------------------------------ diff: specification

\* ir with its transitions' ids dropped ("none"), set to t1, t2, ...
\* ("numbered"), or left as they are.
SetIds(ir, mode) ==
    [ir EXCEPT !.stateMachine.transitions =
        [i \in DOMAIN @ |->
            IF mode = "none" THEN Drop(@[i], "id")
            ELSE IF mode = "numbered" THEN Put(@[i], "id", "t" \o ToString(i))
            ELSE @[i]]]

\* ir with args: [] given to the command actions that have no args ("empty"),
\* taken from those that have args: [] ("absent"), or left as they are.
SetArgs(ir, mode) ==
    LET act(a) ==
            IF Get(a, "type", None) # "command" THEN a
            ELSE IF mode = "empty" /\ ~Has(a, "args") THEN Put(a, "args", <<>>)
            ELSE IF mode = "absent" /\ Has(a, "args") /\ a.args = <<>> THEN Drop(a, "args")
            ELSE a
    IN [ir EXCEPT !.stateMachine.transitions =
           [i \in DOMAIN @ |-> [@[i] EXCEPT !.actions = [j \in DOMAIN @ |-> act(@[j])]]]]

\* ir as it is ("none"), with one more state, without its last transition,
\* with another initial state, with its states and transitions in reverse
\* order, or with its first transition a second time at the end.
Change(ir, mode) ==
    IF mode = "state" THEN [ir EXCEPT !.stateMachine.states = Append(@, [id |-> "B"])]
    ELSE IF mode = "fewer"
    THEN [ir EXCEPT !.stateMachine.transitions = SubSeq(@, 1, Len(@) - 1)]
    ELSE IF mode = "initial" THEN [ir EXCEPT !.stateMachine.initial = "Lit"]
    ELSE IF mode = "reorder"
    THEN [ir EXCEPT !.stateMachine.states = [i \in DOMAIN @ |-> @[Len(@) + 1 - i]],
                    !.stateMachine.transitions = [i \in DOMAIN @ |-> @[Len(@) + 1 - i]]]
    ELSE IF mode = "twice"
    THEN [ir EXCEPT !.stateMachine.transitions = Append(@, @[1])]
    ELSE ir

\* _simple_ir_diff(baseline, edited) on two versions of one document.
DiffInit ==
    /\ \E states \in RtStates, actions \in SeqsUpTo(RtActions, 2), back \in RtReturn,
          ids \in {"none", "numbered", "keep"}, args \in {"empty", "absent", "keep"},
          change \in {"none", "state", "fewer", "initial", "reorder", "twice"},
          swap \in BOOLEAN :
            LET a == RtDocument(states, trigBecomes, <<guardMotion>>, actions, back)
                b == Change(SetArgs(SetIds(a, ids), args), change)
            IN /\ r_orig = IF swap THEN b ELSE a
               /\ r_ir = IF swap THEN a ELSE b
    /\ r_text = <<>>
    /\ r_dec = NoIR
    /\ r_diags = <<>>
    /\ r_diff = NoIR
    /\ r_pc = "diff"
    /\ e_bundle = Idle /\ e_before = Idle /\ e_args = Idle /\ e_parent = Idle
    /\ e_patch = Idle /\ e_ir = Idle /\ e_report = Idle /\ e_repairs = Idle
    /\ e_log = Idle /\ e_runs = Idle /\ e_pc = Idle
    /\ d_ir = Idle /\ d_in = Idle /\ d_synth = Idle /\ d_pass = Idle
    /\ p_parent = Idle /\ p_parent0 = Idle /\ p_ir = Idle /\ p_shared = Idle
    /\ p_pc = Idle /\ p_n = Idle /\ p_prev = Idle /\ p_last = Idle
    /\ p_result = Idle
    /\ n_cat = Idle /\ n_ir = Idle /\ n_prev = Idle /\ n_pass = Idle
    /\ v_dir = Idle /\ v_ir = Idle /\ v_devs = Idle /\ v_caps = Idle
    /\ v_diags = Idle /\ v_stages = Idle /\ v_pc = Idle

DiffNext == Diff

SpecDiff == DiffInit /\ [][DiffNext]_vars

\* Two actions that are the same but for a command's args: [] against no args.
SameAction(a, b) ==
    \/ a = b
    \/ /\ Get(a, "type", None) = "command" /\ Get(b, "type", None) = "command"
       /\ Get(a, "args", <<>>) = <<>> /\ Get(b, "args", <<>>) = <<>>
       /\ Drop(a, "args") = Drop(b, "args")

\* Two transitions that are the same but for their ids and such actions.
SameTransition(t, u) ==
    /\ Len(t.actions) = Len(u.actions)
    /\ \A j \in DOMAIN t.actions : SameAction(t.actions[j], u.actions[j])
    /\ Drop(Drop(t, "id"), "actions") = Drop(Drop(u, "id"), "actions")

\* C17: for two IRs with the same initial state, the same states and
\* transition lists that differ only in the ids of transitions and in command
\* actions with args: [] against no args, _simple_ir_diff returns no added or
\* removed state and no added or removed transition.
C17_DiffIgnoresIdsAndEmptyArgs ==
    (r_pc = "done"
        /\ r_orig.stateMachine.initial = r_ir.stateMachine.initial
        /\ r_orig.stateMachine.states = r_ir.stateMachine.states
        /\ Len(r_orig.stateMachine.transitions) = Len(r_ir.stateMachine.transitions)
        /\ \A i \in DOMAIN r_orig.stateMachine.transitions :
              SameTransition(r_orig.stateMachine.transitions[i],
                             r_ir.stateMachine.transitions[i]))
    => /\ r_diff.states_added = <<>>
       /\ r_diff.states_removed = <<>>
       /\ r_diff.transitions_added = {}
       /\ r_diff.transitions_removed = {}
       /\ r_diff.initial.baseline = r_diff.initial.edited

\* C17 witness: the edited IR has no transition ids where the baseline has
\* one and args: [] where the baseline's command has no args, and the diff is
\* empty.
C17_Witness ==
    /\ r_pc = "done"
    /\ Has(r_orig.stateMachine.transitions[2], "id")
    /\ ~Has(r_ir.stateMachine.transitions[2], "id")
    /\ r_orig.stateMachine.transitions[1].actions = <<cmdOn>>
    /\ r_ir.stateMachine.transitions[1].actions = <<Put(cmdOn, "args", <<>>)>>
    /\ r_diff.transitions_added = {}
    /\ r_diff.transitions_removed = {}
    /\ r_diff.states_added = <<>>

\* ---------------------------------------------------- pipeline: stage order
\* The three entry points hand a document to the same stages.  run_pipeline
\* gets it from the generator and run_agent_edit from apply_ir_patch, and both
\* call coerce_ir_shape, normalize_ir, desugar_delays_to_timer_states and
\* validate_all; run_roundtrip gets it from parse_plantuml and calls
\* normalize_ir, desugar_delays_to_timer_states and validate_all.  The repair
\* loops, which run the same calls again, are left out.

\* The documents handed to the stages: with one command, with a delay between
\* two commands, with a command that stands for doing nothing, and with a
\* value written as a synonym.
PipelineDocuments ==
    {RtDocument(states, trigger, <<>>, actions, back) :
        states \in {<<[id |-> "Idle"], [id |-> "Lit"]>>,
                    <<[id |-> "Idle"], [id |-> "Lit"], [id |-> "Off"]>>},
        trigger \in {trigBecomes, trigChanges,
                     [type |-> "becomes", ref |-> [device |-> "motion_hall", path |-> "motion"],
                      value |-> [string |-> "detected"]]},
        actions \in {<<cmdOn>>, <<cmdOn, delay5, cmdOff>>,
                     <<[type |-> "command", device |-> "light_hall", command |-> "none"]>>,
                     <<cmdOn, [type |-> "command", device |-> "light_hall",
                               command |-> "none"]>>},
        back \in RtReturn}

PipelineInit ==
    /\ v_dir \in {"run_pipeline", "run_agent_edit", "run_roundtrip"}
    /\ v_ir \in PipelineDocuments
    /\ v_devs = RtCatalog
    /\ v_caps = RtCapabilities
    /\ v_diags = <<>>
    /\ v_stages = <<>>
    /\ v_pc = IF v_dir = "run_roundtrip" THEN "normalize" ELSE "coerce"
    /\ e_bundle = Idle /\ e_before = Idle /\ e_args = Idle /\ e_parent = Idle
    /\ e_patch = Idle /\ e_ir = Idle /\ e_report = Idle /\ e_repairs = Idle
    /\ e_log = Idle /\ e_runs = Idle /\ e_pc = Idle
    /\ d_ir = Idle /\ d_in = Idle /\ d_synth = Idle /\ d_pass = Idle
    /\ p_parent = Idle /\ p_parent0 = Idle /\ p_ir = Idle /\ p_shared = Idle
    /\ p_pc = Idle /\ p_n = Idle /\ p_prev = Idle /\ p_last = Idle
    /\ p_result = Idle
    /\ n_cat = Idle /\ n_ir = Idle /\ n_prev = Idle /\ n_pass = Idle
    /\ r_orig = Idle /\ r_text = Idle /\ r_ir = Idle /\ r_diags = Idle
    /\ r_diff = Idle /\ r_pc = Idle /\ r_dec = Idle

\* ir = coerce_ir_shape(ir, device_catalog)
CoerceShape ==
    /\ v_pc = "coerce"
    /\ v_ir' = coerce_ir_shape(v_ir, v_devs)
    /\ v_stages' = Append(v_stages, "coerce_ir_shape")
    /\ v_pc' = "normalize"
    /\ UNCHANGED <<v_dir, v_devs, v_caps, v_diags>>
    /\ UNCHANGED pipelineOthers

\* ir = normalize_ir(ir)
NormalizeLiterals ==
    /\ v_pc = "normalize"
    /\ v_ir' = normalize_ir(v_ir)
    /\ v_stages' = Append(v_stages, "normalize_ir")
    /\ v_pc' = "desugar"
    /\ UNCHANGED <<v_dir, v_devs, v_caps, v_diags>>
    /\ UNCHANGED pipelineOthers

\* ir = desugar_delays_to_timer_states(ir)
DesugarDelays ==
    /\ v_pc = "desugar"
    /\ v_ir' = desugar_delays_to_timer_states(v_ir)
    /\ v_stages' = Append(v_stages, "desugar_delays_to_timer_states")
    /\ v_pc' = "validate"
    /\ UNCHANGED <<v_dir, v_devs, v_caps, v_diags>>
    /\ UNCHANGED pipelineOthers

PipelineNext == CoerceShape \/ NormalizeLiterals \/ DesugarDelays \/ ValidateAll

SpecPipeline == PipelineInit /\ [][PipelineNext]_vars

\* C18: every direction, run_roundtrip included, runs coerce_ir_shape, then
\* normalize_ir, then desugar_delays_to_timer_states, then validate_all.
C18_SameStagesInAllDirections ==
    v_pc = "done" =>
        v_stages = <<"coerce_ir_shape", "normalize_ir",
                     "desugar_delays_to_timer_states", "validate_all">>

\* --------------------------------------------------- decoder: specification
\* parse_plantuml on texts as a user leaves them: the text ir_to_plantuml wrote
\* for a document, which holds `unknown_trigger`, `expr?` and `unknown_action`
\* where the document has a part the encoder has no notation for, as it is or
\* with lines taken out.

\* A trigger, an expression and an action the encoder has no notation for.
oddTrigger == [type |-> "sunrise"]
oddExpr == [op |-> "xor", args |-> <<refMotion, litActive>>]
oddAction == [type |-> "wait"]

DecStates ==
    {<<[id |-> "Idle"], [id |-> "Lit"]>>,
     <<[id |-> "Idle"], [id |-> "Lit"], [id |-> "A"]>>,
     <<[id |-> "Idle"], [id |-> "Lit", invariants |-> <<guardMotion, oddExpr>>]>>,
     <<[id |-> "Idle"], [id |-> "Lit", invariants |-> <<oddExpr, guardMotion, oddExpr>>],
       [id |-> "A"]>>}

DecTriggers ==
    {<<trigBecomes>>, <<oddTrigger>>, <<trigChanges, oddTrigger>>,
     <<oddTrigger, [type |-> "after", seconds |-> 30], oddTrigger>>}

DecGuards == {<<>>, <<guardMotion>>, <<oddExpr>>}

DecActions ==
    {<<cmdOn>>, <<oddAction>>, <<cmdOn, oddAction>>, <<oddAction, delay5, cmdOff>>,
     <<[type |-> "notify", message |-> "Say \"hi\""], oddAction, oddAction>>}

DecDocument(states, triggers, guard, actions, back) ==
    LET tr == [from |-> "Idle", to |-> "Lit", triggers |-> triggers, actions |-> actions]
    IN [version |-> "0.1",
        devices |-> <<[id |-> "light_hall", kind |-> "switch"],
                      [id |-> "motion_hall", kind |-> "motionSensor"]>>,
        stateMachine |->
            [initial |-> "Lit",
             states |-> states,
             transitions |-> <<IF guard = <<>> THEN tr ELSE Put(tr, "guard", guard[1]), back>>]]

\* The line `[*] --> <target>`.
IsInitialMarker(line) == Len(line) = 3 /\ line[1] = Kw("[*]") /\ line[2] = Kw("-->")

\* The line `state "<label>" as <alias>`.
IsStateLine(line) == Len(line) = 4 /\ line[1] = Kw("state")

\* The text as written, without its initial marker, without the marker and
\* the state declarations, cut down to its head and @enduml, or cut down to
\* its initial marker.
EditText(text, edit) ==
    IF edit = "no_initial" THEN SelectSeq(text, LAMBDA l : ~IsInitialMarker(l))
    ELSE IF edit = "no_states"
    THEN SelectSeq(text, LAMBDA l : ~IsInitialMarker(l) /\ ~IsStateLine(l))
    ELSE IF edit = "head" THEN SubSeq(text, 1, 3) \o <<<<Kw("@enduml")>>>>
    ELSE IF edit = "marker_only" THEN SelectSeq(text, IsInitialMarker)
    ELSE text

DecodeInit ==
    /\ \E states \in DecStates, triggers \in DecTriggers, guard \in DecGuards,
          actions \in DecActions, back \in RtReturn,
          edit \in {"none", "no_initial", "no_states", "head", "marker_only"} :
            /\ r_orig = DecDocument(states, triggers, guard, actions, back)
            /\ r_text = EditText(ir_to_plantuml(r_orig, "Automation"), edit)
    /\ r_dec = ParseStart
    /\ r_ir = NoIR
    /\ r_diags = <<>>
    /\ r_diff = NoIR
    /\ r_pc = "decode"
    /\ e_bundle = Idle /\ e_before = Idle /\ e_args = Idle /\ e_parent = Idle
    /\ e_patch = Idle /\ e_ir = Idle /\ e_report = Idle /\ e_repairs = Idle
    /\ e_log = Idle /\ e_runs = Idle /\ e_pc = Idle
    /\ d_ir = Idle /\ d_in = Idle /\ d_synth = Idle /\ d_pass = Idle
    /\ p_parent = Idle /\ p_parent0 = Idle /\ p_ir = Idle /\ p_shared = Idle
    /\ p_pc = Idle /\ p_n = Idle /\ p_prev = Idle /\ p_last = Idle
    /\ p_result = Idle
    /\ n_cat = Idle /\ n_ir = Idle /\ n_prev = Idle /\ n_pass = Idle
    /\ v_dir = Idle /\ v_ir = Idle /\ v_devs = Idle /\ v_caps = Idle
    /\ v_diags = Idle /\ v_stages = Idle /\ v_pc = Idle

DecodeNext == DecodeStep \/ Decode

SpecDecode == DecodeInit /\ [][DecodeNext]_vars

\* ------------------------------------------------------------ decoder: claims

\* parse_plantuml has returned.
Decoded == r_pc = "normalize"

\* The state ids the text shows: the aliases of its state declarations and
\* the endpoints of its transitions.
IdsInText(text) ==
    UNION {IF IsStateLine(text[i]) THEN {text[i][4].v}
           ELSE IF Len(text[i]) >= 3 /\ text[i][1].k = "id" /\ text[i][2] = Kw("-->")
           THEN {text[i][1].v, text[i][3].v}
           ELSE {} : i \in DOMAIN text}

\* The targets of the initial markers of the text.
MarkersInText(text) ==
    {text[i][3].v : i \in {j \in DOMAIN text : IsInitialMarker(text[j])}}

KnownTrigger(tg) == tg.type \in {"becomes", "changes", "schedule", "after"}
KnownAction(a) == a.type \in {"command", "delay", "notify"}

\* The number of elements of the sequence that are in the set.
CountIn(seq, S) == Cardinality({i \in DOMAIN seq : seq[i] \in S})

\* C20: in the text of a document, every trigger chunk, guard, action and
\* invariant line that does not parse adds exactly one error (E410, E420,
\* E440, E430) and no other error appears; every transition of the document
\* is decoded, in place, with its triggers, guard and actions that do parse,
\* the lines after a failing one included, and every state keeps its
\* invariants that do parse.
C20_BestEffortDecoding ==
    (Decoded /\ r_text = ir_to_plantuml(r_orig, "Automation")) =>
        LET old == r_orig.stateMachine
            new == r_ir.stateMachine
            oddGuards == {i \in DOMAIN old.transitions :
                             Has(old.transitions[i], "guard")
                                /\ old.transitions[i].guard = oddExpr}
            invs == Join([i \in DOMAIN old.states |-> Get(old.states[i], "invariants", <<>>)],
                         <<>>)
            trigs == Join([i \in DOMAIN old.transitions |-> old.transitions[i].triggers], <<>>)
            acts == Join([i \in DOMAIN old.transitions |-> old.transitions[i].actions], <<>>)
            kept(i) ==
                LET t == old.transitions[i]
                    t1 == [t EXCEPT !.triggers = SelectSeq(@, KnownTrigger),
                                    !.actions = SelectSeq(@, KnownAction)]
                IN IF i \in oddGuards THEN Drop(t1, "guard") ELSE t1
        IN /\ CountCodes(r_diags, {"E410"}) = CountIn(trigs, {oddTrigger})
           /\ CountCodes(r_diags, {"E420"}) = Cardinality(oddGuards)
           /\ CountCodes(r_diags, {"E440"}) = CountIn(acts, {oddAction})
           /\ CountCodes(r_diags, {"E430"}) = CountIn(invs, {oddExpr})
           /\ CountCodes(r_diags, {"E410", "E420", "E440", "E430"})
                  = Cardinality({i \in DOMAIN r_diags : r_diags[i].severity = "error"})
           /\ Len(new.transitions) = Len(old.transitions)
           /\ \A i \in DOMAIN old.transitions :
                  SameTransition(new.transitions[i], kept(i))
           /\ \A s \in Range(old.states) :
                  \E s2 \in Range(new.states) :
                      /\ s2.id = s.id
                      /\ Get(s2, "invariants", <<>>)
                            = SelectSeq(Get(s, "invariants", <<>>), LAMBDA e : e # oddExpr)

\* C20 witness: a transition whose first and third trigger, second and third
\* action and guard do not parse was decoded with its second trigger and its
\* first action, and the transition on the next line with all it has.
C20_Witness ==
    /\ Decoded
    /\ r_text = ir_to_plantuml(r_orig, "Automation")
    /\ r_orig.stateMachine.transitions[1].triggers
          = <<oddTrigger, [type |-> "after", seconds |-> 30], oddTrigger>>
    /\ Has(r_orig.stateMachine.transitions[1], "guard")
    /\ r_orig.stateMachine.transitions[1].guard = oddExpr
    /\ r_ir.stateMachine.transitions[1]
          = [from |-> "Idle", to |-> "Lit",
             triggers |-> <<[type |-> "after", seconds |-> 30]>>,
             actions |-> <<[type |-> "notify", message |-> "Say \"hi\""]>>]
    /\ r_ir.stateMachine.transitions[2].actions = <<cmdOff>>
    /\ CountCodes(r_diags, {"E410", "E420", "E440"}) = 5

\* --------------------------------------- normalization: values of any type
\* What json.loads hands to coerce_ir_shape need not have the types of the
\* schema.  Here the values under devices, stateMachine, states, initial,
\* transitions, from, to, triggers and actions, and the items of the lists,
\* carry their Python type: t is "missing" (no such key), "null" (None),
\* "str", "dict" or "list", and s, d or l the string, the dict or the items.
\* The dicts of devices, states, triggers and actions are those of the
\* typed model above.

JMissing == [t |-> "missing"]
JNull == [t |-> "null"]
JStr(s) == [t |-> "str", s |-> s]
JDict(d) == [t |-> "dict", d |-> d]
JList(l) == [t |-> "list", l |-> l]

\* all(isinstance(x, <type>) for x in items)
AllOfType(items, type) == \A i \in DOMAIN items : items[i].t = type

\* coerce_ir_shape on a document of values of any type.  It tests the type of
\* every value before it uses it, so it has no result but the document.
coerce_ir_shape_any(ir, device_catalog) ==
    LET kindOf(id) == Only({IF k = None THEN "unknown" ELSE k :
                                k \in {id_to_kind(device_catalog, id)}})
        name_to_id(d) == IF ~Has(d, "id") /\ Has(d, "name") THEN Rename(d, "name", "id") ELSE d
        with_kind(d) == IF ~Has(d, "kind") /\ Has(d, "id") THEN Put(d, "kind", kindOf(d.id)) ELSE d
        devs == ir.devices
        devices1 ==
            IF devs.t = "list" /\ devs.l # <<>> /\ AllOfType(devs.l, "str")
            THEN JList([i \in DOMAIN devs.l |->
                           JDict([id |-> devs.l[i].s, kind |-> kindOf(devs.l[i].s)])])
            ELSE IF devs.t = "list" /\ devs.l # <<>> /\ AllOfType(devs.l, "dict")
            THEN JList([i \in DOMAIN devs.l |-> JDict(with_kind(name_to_id(devs.l[i].d)))])
            ELSE devs
        \* trig_any, act_any: a dict stands for the list of itself
        anyList(v) == IF v.t = "dict" THEN <<v>> ELSE IF v.t = "list" THEN v.l ELSE <<>>
        refsOf(tr0) ==
            {OrGet(x.d, <<"device", "deviceId", "device_id">>) :
                x \in {y \in Range(anyList(tr0.d.triggers)) \cup Range(anyList(tr0.d.actions)) :
                          y.t = "dict"}}
        sm0 == ir.stateMachine
        trans0 == IF sm0.t = "dict" /\ sm0.d.transitions.t = "list"
                  THEN SelectSeq(sm0.d.transitions.l, LAMBDA tr0 : tr0.t = "dict")
                  ELSE <<>>
        inferred == sorted(UNION {refsOf(tr0) : tr0 \in Range(trans0)} \ {None, ""})
        devices2 ==
            IF (devices1.t # "list" \/ devices1.l = <<>>) /\ inferred # <<>>
            THEN JList([i \in DOMAIN inferred |->
                           JDict([id |-> inferred[i], kind |-> kindOf(inferred[i])])])
            ELSE devices1
        states1(sm) ==
            LET states == sm.states
                objs == IF states.l # <<>> /\ AllOfType(states.l, "str")
                        THEN [i \in DOMAIN states.l |-> JDict([id |-> states.l[i].s])]
                        ELSE states.l
            IN IF states.t # "list" THEN sm
               ELSE [sm EXCEPT !.states =
                        JList([i \in DOMAIN objs |->
                                  IF objs[i].t = "dict" THEN JDict(coerce_state(objs[i].d))
                                  ELSE objs[i]])]
        first_state_id(sts) ==
            IF sts.t = "list" /\ sts.l # <<>> /\ sts.l[1].t = "dict" /\ Has(sts.l[1].d, "id")
                  /\ sts.l[1].d.id # ""
            THEN sts.l[1].d.id ELSE "Idle"
        initial1(sm) ==
            IF sm.initial.t # "str" \/ sm.initial.s = ""
            THEN [sm EXCEPT !.initial = JStr(first_state_id(sm.states))] ELSE sm
        state_ids(sm) ==
            IF sm.states.t # "list" THEN <<>>
            ELSE Only({[i \in DOMAIN u |-> u[i].d.id] : u \in
                         {SelectSeq(sm.states.l, LAMBDA s : s.t = "dict" /\ Has(s.d, "id"))}})
        wrap(v) == IF v.t = "dict" THEN JList(<<v>>) ELSE v
        listOrEmpty(v) == IF v.t = "list" THEN v ELSE JList(<<>>)
        fallback_to(from, ids) ==
            LET others == {i \in DOMAIN ids : ids[i] # from}
            IN IF others = {} THEN from ELSE ids[SetMin(others)]
        kept(res) == SelectSeq(res, LAMBDA r : r.keep)
        transition(tr, sm, ids) ==
            LET from == IF tr.from.t # "str" \/ tr.from.s = "" THEN sm.initial.s ELSE tr.from.s
                to == IF tr.to.t # "str" \/ tr.to.s = "" THEN fallback_to(from, ids)
                      ELSE tr.to.s
                triggers == listOrEmpty(wrap(tr.triggers)).l
                actions == SelectSeq(listOrEmpty(wrap(tr.actions)).l, LAMBDA a : a.t = "dict")
                coerced == kept([i \in DOMAIN actions |->
                                    coerce_action(actions[i].d, device_catalog)])
            IN [from |-> JStr(from), to |-> JStr(to),
                triggers |-> JList([i \in DOMAIN triggers |->
                                       IF triggers[i].t = "dict"
                                       THEN JDict(coerce_trigger(triggers[i].d))
                                       ELSE triggers[i]]),
                actions |-> JList([i \in DOMAIN coerced |-> JDict(coerced[i].a)])]
        transitions1(sm) ==
            IF sm.transitions.t # "list" THEN sm
            ELSE [sm EXCEPT !.transitions =
                     JList([i \in DOMAIN @.l |->
                               IF @.l[i].t = "dict"
                               THEN JDict(transition(@.l[i].d, sm, state_ids(sm)))
                               ELSE @.l[i]])]
        shaped(sm) ==
            Only({transitions1(w) : w \in {Only({initial1(v) : v \in
                    {Only({states1(u) : u \in {sm}})}})}})
    IN [devices |-> devices2,
        stateMachine |-> IF sm0.t # "dict" THEN sm0 ELSE JDict(shaped(sm0.d))]

\* `for x in v` raises TypeError when v is None; over a list it visits the
\* items, over a str its characters and over a dict its keys.
Iterable(v) == v.t \in {"list", "str", "dict"}

\* normalize_ir on a document of values of any type: raised tells whether it
\* ends in a TypeError.  sm.get("transitions", []) and sm.get("states", [])
\* are iterated whatever they hold.
normalize_ir_any(ir) ==
    LET sm == ir.stateMachine
        dflt(v) == IF v.t = "missing" THEN JList(<<>>) ELSE v
        transitions == IF sm.t = "dict" THEN dflt(sm.d.transitions) ELSE JList(<<>>)
        states == IF sm.t = "dict" THEN dflt(sm.d.states) ELSE JList(<<>>)
        triggers(v) ==
            IF v.t # "list" THEN v
            ELSE JList([i \in DOMAIN v.l |->
                           IF v.l[i].t = "dict" THEN JDict(walk_triggers(<<v.l[i].d>>)[1])
                           ELSE v.l[i]])
        actions(v) ==
            IF v.t # "list" THEN v
            ELSE JList([i \in DOMAIN v.l |->
                           IF v.l[i].t = "dict" THEN JDict(walk_actions(<<v.l[i].d>>)[1])
                           ELSE v.l[i]])
        walk_tr(tr) ==
            IF tr.t # "dict" THEN tr
            ELSE JDict([tr.d EXCEPT !.triggers = triggers(@), !.actions = actions(@)])
        walk_st(st) ==
            IF st.t = "dict" /\ Has(st.d, "invariants")
            THEN JDict([st.d EXCEPT !.invariants = [i \in DOMAIN @ |-> walk_expr(@[i])]])
            ELSE st
        sm1 == IF sm.t = "dict" /\ sm.d.transitions.t = "list"
               THEN JDict([sm.d EXCEPT !.transitions =
                              JList([i \in DOMAIN @.l |-> walk_tr(@.l[i])])])
               ELSE sm
        sm2 == IF sm1.t = "dict" /\ sm1.d.states.t = "list"
               THEN JDict([sm1.d EXCEPT !.states =
                              JList([i \in DOMAIN @.l |-> walk_st(@.l[i])])])
               ELSE sm1
    IN IF ~Iterable(transitions) THEN [raised |-> TRUE, ir |-> ir]
       ELSE IF ~Iterable(states)
       THEN [raised |-> TRUE, ir |-> [ir EXCEPT !.stateMachine = sm1]]
       ELSE [raised |-> FALSE, ir |-> [ir EXCEPT !.stateMachine = sm2]]

\* The values the documents hold under stateMachine's keys and under the
\* keys of a transition.
AnyStates ==
    {JMissing, JNull, JStr("A"), JDict([id |-> "A"]), JList(<<>>),
     JList(<<JStr("A"), JStr("B")>>),
     JList(<<JDict([name |-> "A"]), JDict([id |-> "B", invariants |-> <<NormGuard>>])>>),
     JList(<<JStr("A"), JNull, JDict([id |-> "B"])>>)}

AnyInitial == {JMissing, JNull, JStr(""), JStr("B"), JDict([id |-> "A"]), JList(<<>>)}

AnyTriggers ==
    {JMissing, JNull, JStr("motion"),
     JDict([device |-> "motion1", attribute |-> "motion", becomes |-> "active"]),
     JList(<<>>),
     JList(<<JDict([type |-> "becomes", ref |-> [device |-> "motion1", path |-> "motion"],
                    value |-> [string |-> "Detected"]]), JNull, JStr("x")>>)}

AnyActions ==
    {JMissing, JNull, JStr("on"),
     JDict([device |-> "siren1", command |-> "turn_on"]),
     JList(<<>>),
     JList(<<JDict([type |-> "command", device |-> "lamp1", command |-> "noop"]), JNull,
             JDict([type |-> "command", device |-> "lamp1", command |-> "Turn_On"])>>)}

AnyTransitions ==
    {JMissing, JNull, JStr("A"), JDict([from |-> "A"]), JList(<<>>), JList(<<JNull, JStr("x")>>)}
    \cup {JList(<<JDict([from |-> from, to |-> JMissing, triggers |-> triggers,
                         actions |-> actions])>>) :
             from \in {JMissing, JStr("B")}, triggers \in AnyTriggers, actions \in AnyActions}

AnyDevices ==
    {JMissing, JNull, JStr("lamp1"), JDict([id |-> "lamp1"]), JList(<<>>),
     JList(<<JStr("lamp1"), JStr("siren1")>>),
     JList(<<JDict([name |-> "lamp1"]), JDict([id |-> "siren1"])>>),
     JList(<<JStr("lamp1"), JNull>>)}

AnyStateMachine ==
    {JMissing, JNull, JStr("sm"), JList(<<>>)}
    \cup {JDict([states |-> states, initial |-> initial, transitions |-> transitions]) :
             states \in AnyStates, initial \in AnyInitial, transitions \in AnyTransitions}

ShapeInit ==
    /\ v_dir = "run_pipeline"
    /\ \E devices \in AnyDevices, sm \in AnyStateMachine :
          v_ir = [devices |-> devices, stateMachine |-> sm]
    /\ v_devs = NormCatalog
    /\ v_caps = RtCapabilities
    /\ v_diags = <<>>
    /\ v_stages = <<>>
    /\ v_pc = "coerce"
    /\ e_bundle = Idle /\ e_before = Idle /\ e_args = Idle /\ e_parent = Idle
    /\ e_patch = Idle /\ e_ir = Idle /\ e_report = Idle /\ e_repairs = Idle
    /\ e_log = Idle /\ e_runs = Idle /\ e_pc = Idle
    /\ d_ir = Idle /\ d_in = Idle /\ d_synth = Idle /\ d_pass = Idle
    /\ p_parent = Idle /\ p_parent0 = Idle /\ p_ir = Idle /\ p_shared = Idle
    /\ p_pc = Idle /\ p_n = Idle /\ p_prev = Idle /\ p_last = Idle
    /\ p_result = Idle
    /\ n_cat = Idle /\ n_ir = Idle /\ n_prev = Idle /\ n_pass = Idle
    /\ r_orig = Idle /\ r_text = Idle /\ r_ir = Idle /\ r_diags = Idle
    /\ r_diff = Idle /\ r_pc = Idle /\ r_dec = Idle

\* ir = coerce_ir_shape(ir, device_catalog)
CoerceAny ==
    /\ v_pc = "coerce"
    /\ v_ir' = coerce_ir_shape_any(v_ir, v_devs)
    /\ v_stages' = Append(v_stages, "coerce_ir_shape")
    /\ v_pc' = "normalize"
    /\ UNCHANGED <<v_dir, v_devs, v_caps, v_diags>>
    /\ UNCHANGED pipelineOthers

\* ir = normalize_ir(ir): with the document, or raised: run_pipeline has no
\* handler around the call, so the error ends the run.
NormalizeAny ==
    /\ v_pc = "normalize"
    /\ \E res \in {normalize_ir_any(v_ir)} :
          /\ v_ir' = res.ir
          /\ v_pc' = IF res.raised THEN "raised" ELSE "done"
    /\ v_stages' = Append(v_stages, "normalize_ir")
    /\ UNCHANGED <<v_dir, v_devs, v_caps, v_diags>>
    /\ UNCHANGED pipelineOthers

ShapeNext == CoerceAny \/ NormalizeAny

SpecShape == ShapeInit /\ [][ShapeNext]_vars

\* C21: the normalization step never fails: whatever is missing, null, a
\* string, an object or a list under devices, stateMachine, states, initial,
\* transitions, triggers and actions, coerce_ir_shape and normalize_ir return
\* a document and raise no error.
C21_NormalizerNeverRaises == v_pc # "raised"

\* ------------------------------------- expressions: printed and parsed back
\* _expr_to_str writes an expression and _parse_expr reads the text.

refLevel == [ref |-> [device |-> "light_hall", path |-> "level"]]

\* References and literals; the last two are a number that is a float and a
\* device whose id has a hyphen.
ExprRefs == {refMotion, refLevel}
ExprLits ==
    {litActive, [lit |-> [string |-> "Say \"hi\""]], [lit |-> [number |-> 50]],
     [lit |-> [bool |-> TRUE]]}
ExprOdd ==
    {[lit |-> [number |-> 2^30]], [ref |-> [device |-> "light-hall", path |-> "switch"]]}
ExprAtoms == ExprRefs \cup ExprLits \cup ExprOdd

Node(op, args) == [op |-> op, args |-> args]

CmpOps == {"eq", "neq", "lt", "lte", "gt", "gte"}

\* The operator nodes over the operands X (left) and Y (others): not with one
\* argument, comparisons with two, and/or with two and with three.
ExprNodes(X, Y) ==
    {Node("not", <<x>>) : x \in X}
    \cup {Node(op, <<x, y>>) : op \in CmpOps \cup {"and", "or"}, x \in X, y \in Y}
    \cup {Node(op, <<x, y, x>>) : op \in {"and", "or"}, x \in X, y \in Y}

\* Trees of depth one, two and three.
ExprDepth1 == ExprNodes(ExprAtoms, ExprAtoms)
ExprInner ==
    {Node("not", <<refMotion>>), Node("eq", <<refMotion, litActive>>),
     Node("gte", <<refLevel, [lit |-> [number |-> 50]]>>),
     Node("and", <<refMotion, refLevel, refMotion>>),
     Node("or", <<refMotion, refLevel>>)}
ExprDepth2 == ExprNodes(ExprInner, ExprInner \cup ExprRefs) \cup ExprNodes(ExprRefs, ExprInner)
ExprDeep ==
    {Node("and", <<Node("not", <<Node("eq", <<refMotion, litActive>>)>>),
                   Node("or", <<Node("and", <<refMotion, refLevel>>), refLevel>>)>>),
     Node("or", <<Node("or", <<refMotion, Node("or", <<refLevel, refMotion>>)>>), refLevel,
                  Node("not", <<Node("not", <<refMotion>>)>>)>>),
     Node("eq", <<Node("not", <<Node("lt", <<refLevel, [lit |-> [number |-> 50]]>>)>>),
                  Node("and", <<refMotion, Node("gt", <<refLevel, [lit |-> [number |-> 2^30]]>>)>>)>>)}
ExprTrees == ExprAtoms \cup ExprDepth1 \cup ExprDepth2 \cup ExprDeep

ExprInit ==
    /\ r_orig \in ExprTrees
    /\ r_text = <<>>
    /\ r_dec = NoIR
    /\ r_ir = NoIR
    /\ r_diags = <<>>
    /\ r_diff = NoIR
    /\ r_pc = "print"
    /\ e_bundle = Idle /\ e_before = Idle /\ e_args = Idle /\ e_parent = Idle
    /\ e_patch = Idle /\ e_ir = Idle /\ e_report = Idle /\ e_repairs = Idle
    /\ e_log = Idle /\ e_runs = Idle /\ e_pc = Idle
    /\ d_ir = Idle /\ d_in = Idle /\ d_synth = Idle /\ d_pass = Idle
    /\ p_parent = Idle /\ p_parent0 = Idle /\ p_ir = Idle /\ p_shared = Idle
    /\ p_pc = Idle /\ p_n = Idle /\ p_prev = Idle /\ p_last = Idle
    /\ p_result = Idle
    /\ n_cat = Idle /\ n_ir = Idle /\ n_prev = Idle /\ n_pass = Idle
    /\ v_dir = Idle /\ v_ir = Idle /\ v_devs = Idle /\ v_caps = Idle
    /\ v_diags = Idle /\ v_stages = Idle /\ v_pc = Idle

\* _expr_to_str(e)
PrintExpr ==
    /\ r_pc = "print"
    /\ r_text' = _expr_to_str(r_orig)
    /\ r_pc' = "parse"
    /\ UNCHANGED <<r_orig, r_dec, r_ir, r_diags, r_diff>>
    /\ UNCHANGED roundtripOthers

\* _parse_expr(text): r_ir holds what it returns
ParseExpr ==
    /\ r_pc = "parse"
    /\ r_ir' = _parse_expr(r_text)
    /\ r_pc' = "parsed"
    /\ UNCHANGED <<r_orig, r_text, r_dec, r_diags, r_diff>>
    /\ UNCHANGED roundtripOthers

ExprNext == PrintExpr \/ ParseExpr

SpecExpr == ExprInit /\ [][ExprNext]_vars

\* C22: for every expression tree of references, literals and operators
\* with the arity they take, _parse_expr(_expr_to_str(e)) succeeds and
\* returns a tree equal to e.
C22_ParseInvertsPrint ==
    r_pc = "parsed" => (r_ir.ok /\ r_ir.e = r_orig)

\* ------------------------------------------------ update_transition: frame

\* The value of an optional field after the edit: the edit's when the edit
\* names it, else the one the transition had (or still none).
FieldKept(t, t2, e, key) ==
    IF Has(e, key)
    THEN Has(t2, key) /\ t2[key] = e[key]
    ELSE Has(t2, key) = Has(t, key) /\ (Has(t, key) => t2[key] = t[key])

\* The endpoints an update_transition edit moves the transition to.
NewEnds(e) == {Get(e, "new_from", ""), Get(e, "new_to", "")} \ {""}

\* C23: update_transition changes only the matched transition: from/to are
\* replaced by new_from/new_to only when those are non-empty strings, a new
\* endpoint state being created if absent; triggers, guard and actions are
\* each replaced only when present in the edit; every other field keeps its
\* value; the other transitions, the order of the list, the existing states
\* and initial are unchanged.
C23_UpdateFrame ==
    (LastOp("update_transition") /\ ~p_last.raised) =>
        LET e == LastEdit
            sm == p_prev.stateMachine
            sm2 == p_ir.stateMachine
            ts == sm.transitions
            ts2 == sm2.transitions
            g == KthMatch(ts, e, Get(e, "index", 0))
            ids == {sm.states[i].id : i \in DOMAIN sm.states}
            fresh == SubSeq(sm2.states, Len(sm.states) + 1, Len(sm2.states))
        IN /\ Len(ts2) = Len(ts)
           /\ \A j \in DOMAIN ts : j # g => ts2[j] = ts[j]
           /\ ts2[g].from = IF Get(e, "new_from", "") # "" THEN e.new_from ELSE ts[g].from
           /\ ts2[g].to = IF Get(e, "new_to", "") # "" THEN e.new_to ELSE ts[g].to
           /\ FieldKept(ts[g], ts2[g], e, "triggers")
           /\ FieldKept(ts[g], ts2[g], e, "guard")
           /\ FieldKept(ts[g], ts2[g], e, "actions")
           /\ DOMAIN ts2[g] \subseteq {"from", "to", "triggers", "guard", "actions"}
           /\ SubSeq(sm2.states, 1, Len(sm.states)) = sm.states
           /\ Len(fresh) = Cardinality(NewEnds(e) \ ids)
           /\ \A i \in DOMAIN fresh :
                fresh[i].id \in NewEnds(e) \ ids /\ fresh[i] = [id |-> fresh[i].id]
           /\ Get(sm2, "initial", None) = Get(sm, "initial", None)

\* C23 witness: the guarded second Idle -> Lit transition, third of the list,
\* was moved to Far -> Off: Far was created, Off existed, and the transition
\* kept its triggers, guard and actions.
C23_Witness ==
    /\ LastOp("update_transition")
    /\ ~p_last.raised
    /\ Get(LastEdit, "index", 0) = 1
    /\ Get(LastEdit, "new_from", "") = "Far"
    /\ p_prev.stateMachine.transitions = <<tIdleLit, tLitIdle, tIdleLit2, tLitOff>>
    /\ p_ir.stateMachine.transitions =
          <<tIdleLit, tLitIdle, [tIdleLit2 EXCEPT !.from = "Far", !.to = "Off"], tLitOff>>
    /\ Len(p_ir.stateMachine.states) = Len(p_prev.stateMachine.states) + 1

\* ------------------------------------------------ mock generator: fallback

\* The one edit of the patch the mock generator writes for a request that
\* holds none of its cues.
MockFallbackEdit ==
    mock_generate_edit_patch([lightoff |-> FALSE, minutes |-> -1,
                              seconds |-> -1, notify |-> FALSE]).edits[1]

\* The state machine has a state Idle, and no state Idle has a label.
IdleUnlabelled(sm) ==
    /\ \E i \in DOMAIN sm.states : sm.states[i].id = "Idle"
    /\ \A i \in DOMAIN sm.states : sm.states[i].id = "Idle" => ~Has(sm.states[i], "label")

\* C24: the mock generator's fallback edit, set_state_label(Idle, "Idle"),
\* applied to an IR whose state Idle has no label gives an IR that
\* _simple_ir_diff does not tell from the one before: states_added and
\* states_removed are empty.
C24_FallbackIsNoOp ==
    (LastOp("set_state_label") /\ LastEdit = MockFallbackEdit /\ ~p_last.raised
        /\ IdleUnlabelled(p_prev.stateMachine)) =>
        LET diff == _simple_ir_diff(p_prev, p_ir)
        IN diff.states_added = <<>> /\ diff.states_removed = <<>>

\* ------------------------------------------------ patch engine: closure

StateIds(sm) == {sm.states[i].id : i \in DOMAIN sm.states}

UniqueIds(sm) ==
    \A i, j \in DOMAIN sm.states : sm.states[i].id = sm.states[j].id => i = j

EndpointsDeclared(sm) ==
    \A i \in DOMAIN sm.transitions :
        sm.transitions[i].from \in StateIds(sm) /\ sm.transitions[i].to \in StateIds(sm)

\* C25: when the parent IR has unique state ids and every transition runs
\* between declared states, the IR apply_ir_patch returns after any sequence
\* of edits has unique state ids and every transition between declared
\* states; initial stops naming a declared state only by a remove_state of
\* the state it names.
C25_PatchClosure ==
    /\ (p_pc = "returned" /\ UniqueIds(p_parent0.stateMachine)
            /\ EndpointsDeclared(p_parent0.stateMachine)) =>
          UniqueIds(p_result.ir.stateMachine) /\ EndpointsDeclared(p_result.ir.stateMachine)
    /\ (p_n >= 1 /\ p_prev.stateMachine.initial \in StateIds(p_prev.stateMachine)
            /\ p_ir.stateMachine.initial \notin StateIds(p_ir.stateMachine)) =>
          /\ LastOp("remove_state")
          /\ Get(LastEdit, "state_id", "") = p_prev.stateMachine.initial
          /\ p_ir.stateMachine.initial = p_prev.stateMachine.initial

\* C25 witness: a returned IR after two edits that created a state through a
\* transition endpoint and removed the initial state with its transitions.
C25_Witness ==
    /\ p_pc = "returned"
    /\ p_n = 2
    /\ p_prev.stateMachine.transitions # p_parent0.stateMachine.transitions
    /\ "Far" \in StateIds(p_prev.stateMachine)
    /\ LastOp("remove_state")
    /\ p_ir.stateMachine.initial \notin StateIds(p_ir.stateMachine)
    /\ p_ir.stateMachine.transitions # <<>>

\* ------------------------------------------------------------ decoder: closure

\* The place of a string in the order of the strings.
StrPos(s) == CHOOSE i \in DOMAIN SortedStrings : SortedStrings[i] = s

RECURSIVE ChainActions(_, _, _)
ChainActions(out, o, n) ==
    IF n = 1 THEN out[o].actions
    ELSE out[o].actions
         \o <<[type |-> "delay", seconds |-> out[o + 1].triggers[1].seconds]>>
         \o ChainActions(out, o + 1, n - 1)

\* out[o .. o+n-1] is a chain from tr.from to tr.to that keeps the actions of
\* tr: guard and triggers of tr on the first leg, one after-trigger and no
\* guard on every later leg.
IsChainOf(out, o, n, tr) ==
    /\ o + n - 1 <= Len(out)
    /\ out[o].from = tr.from
    /\ out[o + n - 1].to = tr.to
    /\ out[o].triggers = tr.triggers
    /\ SameGuard(out[o], tr)
    /\ \A j \in (o + 1)..(o + n - 1) :
          /\ out[j].from = out[j - 1].to
          /\ Len(out[j].triggers) = 1
          /\ out[j].triggers[1].type = "after"
          /\ DOMAIN out[j].triggers[1] = {"type", "seconds"}
          /\ ~Has(out[j], "guard")
    /\ ChainActions(out, o, n) = tr.actions

\* C27: every input transition becomes, at its place in the order of the
\* input, a chain of transitions from its from to its to that runs through
\* newly added wait states only; the actions of the legs, with each split
\* delay put back between two legs, are the original actions; the guard is on
\* the first leg only and every later leg has the one trigger after{seconds}
\* of the delay it replaces.
C27_ChainsPreserveActions ==
    d_pass = 1 =>
        LET tin == d_in.stateMachine.transitions
            out == d_ir.stateMachine.transitions
            old == StateIdsOf(d_in.stateMachine.states)
            new == StateIdsOf(d_ir.stateMachine.states)
        IN /\ \A i \in DOMAIN tin :
                LET o == LegOffset(tin, i)
                    n == Legs(tin[i].actions)
                IN /\ IsChainOf(out, o, n, tin[i])
                   /\ \A j \in o..(o + n - 2) : out[j].to \in new \ old
           /\ Len(out) = IF tin = <<>> THEN 0
                         ELSE LegOffset(tin, Len(tin)) + Legs(tin[Len(tin)].actions) - 1

\* ------------------------------------------------------------ diff: as sets

\* Two states with the same canonical form: the id, and the label when it is
\* not empty.
SameState(s, u) == s.id = u.id /\ Get(s, "label", "") = Get(u, "label", "")

\* Every element of xs has its like among ys, and the other way round.
SameStateSet(xs, ys) ==
    /\ \A i \in DOMAIN xs : \E j \in DOMAIN ys : SameState(xs[i], ys[j])
    /\ \A j \in DOMAIN ys : \E i \in DOMAIN xs : SameState(xs[i], ys[j])

SameTransitionSet(xs, ys) ==
    /\ \A i \in DOMAIN xs : \E j \in DOMAIN ys : SameTransition(xs[i], ys[j])
    /\ \A j \in DOMAIN ys : \E i \in DOMAIN xs : SameTransition(xs[i], ys[j])

\* C28: _simple_ir_diff(a, b) lists nothing as added or removed whenever a and
\* b have the same set of canonical transitions and the same set of canonical
\* states, whatever the order of the lists and however often an element
\* occurs; diff(a, a) lists nothing.
C28_DiffComparesSets ==
    r_pc = "done" =>
        LET a == r_orig.stateMachine
            b == r_ir.stateMachine
            empty == /\ r_diff.states_added = <<>>
                     /\ r_diff.states_removed = <<>>
                     /\ r_diff.transitions_added = {}
                     /\ r_diff.transitions_removed = {}
        IN /\ (SameStateSet(a.states, b.states)
                /\ SameTransitionSet(a.transitions, b.transitions)) => empty
           /\ r_orig = r_ir => empty

\* C28 witness: the baseline has its first transition twice, the edited IR
\* has it once, and the diff lists no transition and no state.
C28_Witness ==
    /\ r_pc = "done"
    /\ Len(r_orig.stateMachine.transitions) = 3
    /\ r_orig.stateMachine.transitions[3] = r_orig.stateMachine.transitions[1]
    /\ r_ir.stateMachine.transitions = SubSeq(r_orig.stateMachine.transitions, 1, 2)
    /\ r_diff.transitions_added = {}
    /\ r_diff.transitions_removed = {}
    /\ r_diff.states_added = <<>>
    /\ r_diff.states_removed = <<>>

\* ------------------------------------ pipeline.py, agent_edit.py: the runs
\* run_pipeline and run_agent_edit on one bundle directory.  The generators
\* that call the language model return any of a few documents or patches; the
\* API key is set.

\* mock_generate_ir(text): delay is the number of seconds the patterns find
\* in the text, 0 when they find none.
mock_generate_ir(delay) ==
    LET delay_s == IF delay <= 0 THEN 300 ELSE delay
        motion(value) == [type |-> "becomes",
                          ref |-> [device |-> "motion_hall", path |-> "motion"],
                          value |-> [string |-> value]]
    IN [version |-> "0.1",
        devices |-> <<[id |-> "motion_hall", kind |-> "motionSensor",
                       capabilities |-> <<"motion">>],
                      [id |-> "light_hall", kind |-> "switch",
                       capabilities |-> <<"switch">>]>>,
        stateMachine |->
            [initial |-> "Idle",
             states |-> <<[id |-> "Idle"], [id |-> "Lit"]>>,
             transitions |->
                <<[id |-> "t_on", from |-> "Idle", to |-> "Lit",
                   triggers |-> <<motion("active")>>, actions |-> <<cmdOn>>],
                  [id |-> "t_off", from |-> "Lit", to |-> "Idle",
                   triggers |-> <<motion("inactive")>>,
                   actions |-> <<[type |-> "delay", seconds |-> delay_s], cmdOff>>]>>]]

\* The for loop of apply_ir_patch over patch.edits.
RECURSIVE ApplyEdits(_, _)
ApplyEdits(sm, edits) ==
    IF edits = <<>> THEN Done(sm)
    ELSE IF Head(edits) = NonDictEdit THEN ApplyEdits(sm, Tail(edits))
    ELSE Only({IF r.raised THEN r ELSE ApplyEdits(r.sm, Tail(edits)) :
                  r \in {ApplyEdit(sm, Head(edits))}})

\* apply_ir_patch(parent_ir, patch): the patched copy, or a PipelineError
apply_ir_patch(parent_ir, patch) ==
    IF ~Has(parent_ir, "stateMachine") THEN [raised |-> TRUE]
    ELSE Only({IF r.raised THEN [raised |-> TRUE]
               ELSE [raised |-> FALSE, ir |-> [parent_ir EXCEPT !.stateMachine = r.sm]] :
                  r \in {ApplyEdits(parent_ir.stateMachine, Get(patch, "edits", <<>>))}})

\* The report both entry points write: ok when no diagnostic is an error.
Report(diags) ==
    [ok |-> ~(\E i \in DOMAIN diags : diags[i].severity = "error"),
     diagnostics |-> diags]

\* compile_and_validate(ir0) of run_agent_edit, and the same four calls of
\* run_pipeline: the document after the stages and its report
compile_and_validate(ir0, device_catalog, capability_catalog) ==
    Only({[ir |-> ir1,
           report |-> Report(validate_all(ir1, device_catalog, capability_catalog))] :
             ir1 \in {desugar_delays_to_timer_states(n) :
                         n \in {normalize_ir(c) :
                                  c \in {coerce_ir_shape(r, device_catalog) : r \in {ir0}}}}})

\* A bundle root that does not exist, and one with its three empty folders.
NoBundle == [kind |-> "no bundle"]
EmptyBundle ==
    [baseline |-> NoIR, current |-> NoIR, points_to |-> "", revisions |-> <<>>, edits |-> 0]

ensure_bundle_dirs(bundle) == IF bundle = NoBundle THEN EmptyBundle ELSE bundle

\* _load_parent_ir: current/final.ir.json, else baseline/final.ir.json, else
\* (NoIR) a PipelineError; run_agent_edit raises before it when the bundle
\* root does not exist
_load_parent_ir(bundle) ==
    IF bundle = NoBundle THEN NoIR
    ELSE IF bundle.current # NoIR THEN bundle.current
    ELSE bundle.baseline

\* current/final.ir.json of a bundle, NoIR when there is none
CurrentOf(bundle) == IF bundle = NoBundle THEN NoIR ELSE bundle.current

\* update_current: final.ir.json of the revision copied over current/
update_current(bundle, final_ir) == [bundle EXCEPT !.current = final_ir]

\* write_manifest with the keys current and append_revision
write_manifest(bundle, points_to, kind) ==
    [bundle EXCEPT !.points_to = points_to, !.revisions = Append(@, kind)]

\* (mutant) the revision is copied into current/ whatever its report says
Promote_always(bundle, ok, final_ir) == update_current(bundle, final_ir)

\* `if ok: update_current(bundle_root, revision_dir)`
Promote(bundle, ok, final_ir) == IF ok THEN update_current(bundle, final_ir) ELSE bundle

\* (mutant) the loop runs once more than max_repairs allows
RepairWanted_once_more(use_mock, repairs, max_repairs, ok) ==
    ~use_mock /\ repairs <= max_repairs /\ ~ok

\* The condition of the while loop of both entry points.
RepairWanted(use_mock, repairs, max_repairs, ok) ==
    ~use_mock /\ repairs < max_repairs /\ ~ok

\* (mutant) a repaired patch is applied to the document of the last attempt
RepairBase_chained(parent_ir, last_ir) == last_ir

\* The IR the loop hands to apply_ir_patch with a repaired patch.
RepairBase(parent_ir, last_ir) == parent_ir

\* What the generators of run_pipeline return: a document that validates and
\* one whose initial state is not declared.
GenDocument(initial) ==
    [RtDocument(<<[id |-> "Idle"], [id |-> "Lit"]>>, trigBecomes, <<>>,
                <<cmdOn, delay5, cmdOff>>,
                [from |-> "Lit", to |-> "Idle", triggers |-> <<>>, actions |-> <<>>])
     EXCEPT !.stateMachine.initial = initial]

GenDocuments == {GenDocument("Idle"), GenDocument("Off")}

\* What the stages make of each document of the generator.
GenCompiled ==
    [ir \in GenDocuments |-> compile_and_validate(ir, RtCatalog, RtCapabilities)]

\* The seconds mock_generate_ir reads in the request: none, and "2 minutes".
MockDelays == {0, 120}

\* What the patch generators of run_agent_edit return: a new label, the
\* removal of the initial state, that removal with another initial state, and
\* an op that apply_ir_patch does not know.
EditPatches ==
    {[summary |-> "Rename Idle.",
      edits |-> <<[op |-> "set_state_label", state_id |-> "Idle", label |-> "Hall"]>>],
     [summary |-> "",
      edits |-> <<[op |-> "remove_state", state_id |-> "Idle"]>>],
     [edits |-> <<[op |-> "remove_state", state_id |-> "Idle"],
                  [op |-> "set_initial", state_id |-> "Lit"]>>],
     [edits |-> <<[op |-> "rename_state", state_id |-> "Idle"]>>]}

\* The requests the mock patch generator is given: with and without
\* "lightoff" and "notify", without a number.
MockEditRequests ==
    {t \in MockRequests : t.minutes < 0 /\ t.seconds < 0}

RunArgs(fn, use_mock, max_repairs) ==
    [fn |-> fn, use_mock |-> use_mock, max_repairs |-> max_repairs]

Validated(report) == [ev |-> "validate", ok |-> report.ok]
Repaired == [ev |-> "repair"]
Applied(ir) == [ev |-> "apply", on |-> ir]

\* f"edits/{revision_dir.name}"
EditId(n) == "edits/edit_" \o (IF n < 10 THEN "00" ELSE "0") \o ToString(n)

RunsInit ==
    /\ e_bundle = NoBundle
    /\ e_before = NoBundle
    /\ e_args = RunArgs("none", FALSE, 0)
    /\ e_parent = NoIR
    /\ e_patch = NoIR
    /\ e_ir = NoIR
    /\ e_report = NoIR
    /\ e_repairs = 0
    /\ e_log = <<>>
    /\ e_runs = 0
    /\ e_pc = "ready"
    /\ d_ir = Idle /\ d_in = Idle /\ d_synth = Idle /\ d_pass = Idle
    /\ p_parent = Idle /\ p_parent0 = Idle /\ p_ir = Idle /\ p_shared = Idle
    /\ p_pc = Idle /\ p_n = Idle /\ p_prev = Idle /\ p_last = Idle
    /\ p_result = Idle
    /\ n_cat = Idle /\ n_ir = Idle /\ n_prev = Idle /\ n_pass = Idle
    /\ r_orig = Idle /\ r_text = Idle /\ r_ir = Idle /\ r_diags = Idle
    /\ r_diff = Idle /\ r_pc = Idle /\ r_dec = Idle
    /\ v_dir = Idle /\ v_ir = Idle /\ v_devs = Idle /\ v_caps = Idle
    /\ v_diags = Idle /\ v_stages = Idle /\ v_pc = Idle

\* No run is under way.
Ready == e_pc \in {"ready", "returned", "raised"}

\* run_pipeline up to the repair loop: the generator, the bundle folders and
\* the first pass through the stages.
RunPipeline ==
    /\ Ready
    /\ e_runs < MaxRuns
    /\ \E use_mock \in BOOLEAN, max_repairs \in 0..MaxRepairs :
        \E ir \in IF use_mock THEN {mock_generate_ir(d) : d \in MockDelays}
                  ELSE GenDocuments :
            \E c \in {compile_and_validate(ir, RtCatalog, RtCapabilities)} :
                /\ e_args' = RunArgs("run_pipeline", use_mock, max_repairs)
                /\ e_ir' = c.ir
                /\ e_report' = c.report
                /\ e_log' = <<Validated(c.report)>>
    /\ e_before' = e_bundle
    /\ e_bundle' = ensure_bundle_dirs(e_bundle)
    /\ e_parent' = NoIR
    /\ e_patch' = NoIR
    /\ e_repairs' = 0
    /\ e_runs' = e_runs + 1
    /\ e_pc' = "loop"
    /\ UNCHANGED runsOthers

\* One iteration of the repair loop of run_pipeline.
RepairIR ==
    /\ e_pc = "loop"
    /\ e_args.fn = "run_pipeline"
    /\ RepairWanted(e_args.use_mock, e_repairs, e_args.max_repairs, e_report.ok)
    /\ e_repairs' = e_repairs + 1
    /\ \E ir \in GenDocuments :
        \E c \in {GenCompiled[ir]} :
            /\ e_ir' = c.ir
            /\ e_report' = c.report
            /\ e_log' = e_log \o <<Repaired, Validated(c.report)>>
    /\ UNCHANGED <<e_bundle, e_before, e_args, e_parent, e_patch, e_runs, e_pc>>
    /\ UNCHANGED runsOthers

\* run_pipeline after the loop: the baseline outputs, current/ and the manifest.
PipelineFinish ==
    /\ e_pc = "loop"
    /\ e_args.fn = "run_pipeline"
    /\ ~RepairWanted(e_args.use_mock, e_repairs, e_args.max_repairs, e_report.ok)
    /\ e_bundle' = write_manifest(update_current([e_bundle EXCEPT !.baseline = e_ir], e_ir),
                                  "baseline", "baseline")
    /\ e_pc' = "returned"
    /\ UNCHANGED <<e_before, e_args, e_parent, e_patch, e_ir, e_report, e_repairs,
                   e_log, e_runs>>
    /\ UNCHANGED runsOthers

\* run_agent_edit on a bundle root that does not exist, or that holds no
\* final.ir.json: a PipelineError before anything is written.
EditNoParent ==
    /\ Ready
    /\ e_runs < MaxRuns
    /\ _load_parent_ir(e_bundle) = NoIR
    /\ \E use_mock \in BOOLEAN, max_repairs \in 0..MaxRepairs :
          e_args' = RunArgs("run_agent_edit", use_mock, max_repairs)
    /\ e_before' = e_bundle
    /\ e_parent' = NoIR
    /\ e_patch' = NoIR
    /\ e_ir' = NoIR
    /\ e_report' = NoIR
    /\ e_repairs' = 0
    /\ e_log' = <<>>
    /\ e_runs' = e_runs + 1
    /\ e_pc' = "raised"
    /\ UNCHANGED e_bundle
    /\ UNCHANGED runsOthers

\* run_agent_edit up to the repair loop: the parent IR, the new
\* edits/edit_NNN folder, the patch of the generator, apply_ir_patch on the
\* parent IR and the first pass through the stages.
EditCall ==
    /\ Ready
    /\ e_runs < MaxRuns
    /\ e_bundle # NoBundle
    /\ _load_parent_ir(e_bundle) # NoIR
    /\ \E use_mock \in BOOLEAN, max_repairs \in 0..MaxRepairs :
        \E patch \in IF use_mock
                     THEN {mock_generate_edit_patch(t) : t \in MockEditRequests}
                     ELSE EditPatches :
            \E r \in {apply_ir_patch(_load_parent_ir(e_bundle), patch)} :
                /\ ~r.raised
                /\ e_args' = RunArgs("run_agent_edit", use_mock, max_repairs)
                /\ e_patch' = patch
                /\ \E c \in {compile_and_validate(r.ir, RtCatalog, RtCapabilities)} :
                    /\ e_ir' = c.ir
                    /\ e_report' = c.report
                    /\ e_log' = <<Applied(_load_parent_ir(e_bundle)), Validated(c.report)>>
    /\ e_before' = e_bundle
    /\ e_parent' = _load_parent_ir(e_bundle)
    /\ e_bundle' = [e_bundle EXCEPT !.edits = @ + 1]
    /\ e_repairs' = 0
    /\ e_runs' = e_runs + 1
    /\ e_pc' = "loop"
    /\ UNCHANGED runsOthers

\* run_agent_edit when the first apply_ir_patch raises: the except branch
\* writes the E900 report and the manifest, and returns.
PatchFailed ==
    /\ Ready
    /\ e_runs < MaxRuns
    /\ e_bundle # NoBundle
    /\ _load_parent_ir(e_bundle) # NoIR
    /\ \E use_mock \in BOOLEAN, max_repairs \in 0..MaxRepairs :
        \E patch \in IF use_mock
                     THEN {mock_generate_edit_patch(t) : t \in MockEditRequests}
                     ELSE EditPatches :
            /\ apply_ir_patch(_load_parent_ir(e_bundle), patch).raised
            /\ e_args' = RunArgs("run_agent_edit", use_mock, max_repairs)
            /\ e_patch' = patch
    /\ e_before' = e_bundle
    /\ e_parent' = _load_parent_ir(e_bundle)
    /\ e_ir' = NoIR
    /\ e_report' = Report(<<Diagnostic("error", "E900", "$")>>)
    /\ e_log' = <<Applied(_load_parent_ir(e_bundle))>>
    /\ e_bundle' = write_manifest([e_bundle EXCEPT !.edits = @ + 1],
                                  "unchanged", "agent_edit_failed")
    /\ e_repairs' = 0
    /\ e_runs' = e_runs + 1
    /\ e_pc' = "returned"
    /\ UNCHANGED runsOthers

\* One iteration of the repair loop of run_agent_edit; apply_ir_patch is not
\* in a try block here, so a patch that cannot be applied ends the run with
\* its PipelineError.
RepairPatch ==
    /\ e_pc = "loop"
    /\ e_args.fn = "run_agent_edit"
    /\ RepairWanted(e_args.use_mock, e_repairs, e_args.max_repairs, e_report.ok)
    /\ e_repairs' = e_repairs + 1
    /\ \E patch \in EditPatches :
        \E base \in {RepairBase(e_parent, e_ir)} :
        \E r \in {apply_ir_patch(base, patch)} :
            /\ e_patch' = patch
            /\ IF r.raised
               THEN /\ e_pc' = "raised"
                    /\ e_log' = e_log \o <<Repaired, Applied(base)>>
                    /\ UNCHANGED <<e_ir, e_report>>
               ELSE \E c \in {compile_and_validate(r.ir, RtCatalog, RtCapabilities)} :
                    /\ e_pc' = "loop"
                    /\ e_ir' = c.ir
                    /\ e_report' = c.report
                    /\ e_log' = e_log \o <<Repaired, Applied(base), Validated(c.report)>>
    /\ UNCHANGED <<e_bundle, e_before, e_args, e_parent, e_runs>>
    /\ UNCHANGED runsOthers

\* run_agent_edit after the loop: the revision's files, the manifest, and
\* current/ when the report is ok.
EditFinish ==
    /\ e_pc = "loop"
    /\ e_args.fn = "run_agent_edit"
    /\ ~RepairWanted(e_args.use_mock, e_repairs, e_args.max_repairs, e_report.ok)
    /\ e_bundle' =
          Promote(write_manifest(e_bundle,
                                 IF e_report.ok THEN EditId(e_bundle.edits) ELSE "unchanged",
                                 "agent_edit"),
                  e_report.ok, e_ir)
    /\ e_pc' = "returned"
    /\ UNCHANGED <<e_before, e_args, e_parent, e_patch, e_ir, e_report, e_repairs,
                   e_log, e_runs>>
    /\ UNCHANGED runsOthers

\* The steps of a run that is under way.
RunStep ==
    \/ RepairIR
    \/ PipelineFinish
    \/ RepairPatch
    \/ EditFinish

RunsNext ==
    \/ RunPipeline
    \/ EditNoParent
    \/ EditCall
    \/ PatchFailed
    \/ RepairIR
    \/ PipelineFinish
    \/ RepairPatch
    \/ EditFinish

SpecRuns == RunsInit /\ [][RunsNext]_vars

\* A run that has been called goes on: every call it makes returns or raises.
SpecRunsFair == RunsInit /\ [][RunsNext]_vars /\ WF_vars(RunStep)

\* ------------------------------------------------------------ runs: claims

\* C29: run_agent_edit copies the new revision into current/ only when the
\* final validation report is ok; when the patch cannot be applied (the E900
\* report) or the final report holds an error, current/ keeps what it had
\* before the call and the manifest's current.points_to reads "unchanged", so
\* the next edit loads the same parent IR again.
C29_PromotionRule ==
    (e_args.fn = "run_agent_edit" /\ e_pc \in {"returned", "raised"}) =>
        /\ CurrentOf(e_bundle) # CurrentOf(e_before) =>
              /\ e_pc = "returned"
              /\ e_report.ok
              /\ e_bundle.current = e_ir
        /\ (e_pc = "returned" /\ ~e_report.ok) =>
              /\ e_bundle.current = e_before.current
              /\ e_bundle.baseline = e_before.baseline
              /\ e_bundle.points_to = "unchanged"
              /\ _load_parent_ir(e_bundle) = e_parent

\* C29 witness: after run_pipeline and an edit that was promoted, a further
\* edit went through a repair and returned with errors left in its report;
\* current/ still holds the document of the promoted edit.
C29_Witness ==
    /\ e_args.fn = "run_agent_edit"
    /\ e_pc = "returned"
    /\ e_repairs >= 1
    /\ ~e_report.ok
    /\ e_before.points_to = EditId(1)
    /\ e_bundle.edits = 2
    /\ e_bundle.current = e_before.current
    /\ e_bundle.current # e_bundle.baseline
    /\ e_ir # e_bundle.current

\* The calls of the repair generator in this run.
RepairCalls == {i \in DOMAIN e_log : e_log[i].ev = "repair"}

\* A run is under way.
InRun == e_pc = "loop"

\* C30: in run_pipeline and run_agent_edit the repair generator is called at
\* most max_repairs times, never in mock mode and never after a validation
\* without errors, and the run comes to its end; run_agent_edit applies every
\* patch, the repaired ones too, to the parent IR it loaded.
C30_RepairLoopBound ==
    /\ [](/\ Cardinality(RepairCalls) <= e_args.max_repairs
          /\ Cardinality(RepairCalls) = e_repairs
          /\ e_args.use_mock => RepairCalls = {}
          /\ \A i \in RepairCalls :
                \A j \in 1..(i - 1) : e_log[j].ev = "validate" => ~e_log[j].ok
          /\ \A i \in DOMAIN e_log : e_log[i].ev = "apply" => e_log[i].on = e_parent)
    /\ InRun ~> Ready

\* C30 witness: run_agent_edit called with max_repairs = 2 has asked for two
\* repairs, applied all three patches to the parent IR, and returned with a
\* report that still holds an error.
C30_Witness ==
    /\ e_args = RunArgs("run_agent_edit", FALSE, 2)
    /\ e_pc = "returned"
    /\ Cardinality(RepairCalls) = 2
    /\ Cardinality({i \in DOMAIN e_log : e_log[i] = Applied(e_parent)}) = 3
    /\ e_ir # e_parent
    /\ ~e_report.ok

====
